---- MODULE Spec2Model ----
(***************************************************************************)
(* The heuristic action-item extractor of week2/app/services/extract.py.  *)
(* A text is a sequence of one-character strings; an item is a text.      *)
(* One invocation of extract_action_items runs through the phases of the  *)
(* function body: the line loop, the sentence fallback, the               *)
(* deduplication loop and the return.                                     *)
(***************************************************************************)
EXTENDS Integers, Sequences, FiniteSets, TLC

Range(f) == {f[i] : i \in DOMAIN f}

(***************************************************************************)
(* Characters.  U+2022 (the bullet dot) is the one-character atom "u2022". *)
(***************************************************************************)
UpperCase ==
    <<"A", "B", "C", "D", "E", "F", "G", "H", "I", "J", "K", "L", "M",
      "N", "O", "P", "Q", "R", "S", "T", "U", "V", "W", "X", "Y", "Z">>

LowerCase ==
    <<"a", "b", "c", "d", "e", "f", "g", "h", "i", "j", "k", "l", "m",
      "n", "o", "p", "q", "r", "s", "t", "u", "v", "w", "x", "y", "z">>

Digits == {"0", "1", "2", "3", "4", "5", "6", "7", "8", "9"}

\* str.strip() and the pattern class \s
Whitespace == {" ", "\t", "\n", "\r", "\f"}

\* the line boundaries of str.splitlines()
LineBreaks == {"\n", "\r", "\f"}

\* the pattern class [A-Za-z']
WordChars == Range(UpperCase) \cup Range(LowerCase) \cup {"'"}

\* the pattern class [.!?]
SentenceEnd == {".", "!", "?"}

\* the pattern class [-*<U+2022>]
BulletChars == {"-", "*", "u2022"}

(***************************************************************************)
(* str methods                                                             *)
(***************************************************************************)
lower_char(ch) ==
    IF \E i \in 1..26 : UpperCase[i] = ch
    THEN LowerCase[CHOOSE i \in 1..26 : UpperCase[i] = ch]
    ELSE ch

\* str.lower()
lower(s) == [i \in 1..Len(s) |-> lower_char(s[i])]

Min(S) == CHOOSE x \in S : \A y \in S : x <= y

Max(S) == CHOOSE x \in S : \A y \in S : y <= x

\* str.strip(): from the first to the last character that is not whitespace
strip(s) ==
    LET kept == { i \in 1..Len(s) : s[i] \notin Whitespace }
    IN  IF kept = {} THEN <<>> ELSE SubSeq(s, Min(kept), Max(kept))

\* str.startswith(prefix)
startswith(s, prefix) ==
    /\ Len(prefix) <= Len(s)
    /\ SubSeq(s, 1, Len(prefix)) = prefix

\* str.removeprefix(prefix)
removeprefix(s, prefix) ==
    IF startswith(s, prefix) THEN SubSeq(s, Len(prefix) + 1, Len(s)) ELSE s

\* sub in s
contains(s, sub) ==
    \E i \in 1..(Len(s) - Len(sub) + 1) : SubSeq(s, i, i + Len(sub) - 1) = sub

\* str.splitlines(), from s[i] on: a line ends at the next line boundary
\* ("\r\n" is one boundary) or at the end of s; no line follows the last
\* boundary when nothing follows it
RECURSIVE splitlines_from(_, _)
splitlines_from(s, i) ==
    LET breaks == { k \in i..Len(s) : s[k] \in LineBreaks }
        k == Min(breaks)
        next == IF s[k] = "\r" /\ k < Len(s) /\ s[k + 1] = "\n" THEN k + 2 ELSE k + 1
    IN  IF i > Len(s) THEN <<>>
        ELSE IF breaks = {} THEN <<SubSeq(s, i, Len(s))>>
        ELSE <<SubSeq(s, i, k - 1)>> \o splitlines_from(s, next)

splitlines(s) == splitlines_from(s, 1)

\* the end of the maximal run of characters of S that starts at s[i]
\* (i - 1 when s[i] is not in S): a greedy \s*, \s+, \d+ or [A-Za-z']+
run_end(s, i, S) ==
    LET others == { k \in i..Len(s) : s[k] \notin S }
    IN  IF others = {} THEN Max({i - 1, Len(s)}) ELSE Min(others) - 1

(***************************************************************************)
(* Module constants                                                        *)
(***************************************************************************)
\* BULLET_PREFIX_PATTERN.match(s): the index of the last character matched
\* by ^\s*([-*<U+2022>]|\d+\.)\s+ , or 0 when s has no such prefix
BULLET_PREFIX_PATTERN(s) ==
    LET a == run_end(s, 1, Whitespace)
        d == run_end(s, a + 1, Digits)
        b == IF a + 1 <= Len(s) /\ s[a + 1] \in BulletChars THEN a + 1
             ELSE IF d > a /\ d + 1 <= Len(s) /\ s[d + 1] = "." THEN d + 1
             ELSE 0
        e == IF b = 0 THEN 0 ELSE run_end(s, b + 1, Whitespace)
    IN  IF b # 0 /\ e > b THEN e ELSE 0

\* BULLET_PREFIX_PATTERN.sub("", s)
BULLET_PREFIX_PATTERN_sub(s) ==
    SubSeq(s, BULLET_PREFIX_PATTERN(s) + 1, Len(s))

KEYWORD_PREFIXES ==
    { <<"t", "o", "d", "o", ":">>,
      <<"a", "c", "t", "i", "o", "n", ":">>,
      <<"n", "e", "x", "t", ":">> }

CheckboxEmpty == <<"[", " ", "]">>

CheckboxTodo == <<"[", "t", "o", "d", "o", "]">>

imperative_starters ==
    { <<"a", "d", "d">>,
      <<"c", "r", "e", "a", "t", "e">>,
      <<"i", "m", "p", "l", "e", "m", "e", "n", "t">>,
      <<"f", "i", "x">>,
      <<"u", "p", "d", "a", "t", "e">>,
      <<"w", "r", "i", "t", "e">>,
      <<"c", "h", "e", "c", "k">>,
      <<"v", "e", "r", "i", "f", "y">>,
      <<"r", "e", "f", "a", "c", "t", "o", "r">>,
      <<"d", "o", "c", "u", "m", "e", "n", "t">>,
      <<"d", "e", "s", "i", "g", "n">>,
      <<"i", "n", "v", "e", "s", "t", "i", "g", "a", "t", "e">> }

(***************************************************************************)
(* _is_action_line                                                         *)
(***************************************************************************)
\* is_action_line testing the line as spelled: `stripped = line.strip()`
is_action_line_case_sensitive(line) ==
    LET stripped == strip(line)
    IN  IF stripped = <<>> THEN FALSE
        ELSE IF BULLET_PREFIX_PATTERN(stripped) # 0 THEN TRUE
        ELSE IF \E prefix \in KEYWORD_PREFIXES : startswith(stripped, prefix)
             THEN TRUE
        ELSE IF contains(stripped, CheckboxEmpty) \/ contains(stripped, CheckboxTodo)
             THEN TRUE
        ELSE FALSE

is_action_line(line) ==
    LET stripped == lower(strip(line))
    IN  IF stripped = <<>> THEN FALSE
        ELSE IF BULLET_PREFIX_PATTERN(stripped) # 0 THEN TRUE
        ELSE IF \E prefix \in KEYWORD_PREFIXES : startswith(stripped, prefix)
             THEN TRUE
        ELSE IF contains(stripped, CheckboxEmpty) \/ contains(stripped, CheckboxTodo)
             THEN TRUE
        ELSE FALSE

(***************************************************************************)
(* extract_action_items: the line loop                                     *)
(***************************************************************************)
\* cleaned_line stripping only the first marker that matches: the checkbox
\* strips in the else branch of the bullet strip
cleaned_line_first_marker_only(line) ==
    IF BULLET_PREFIX_PATTERN(line) # 0 THEN strip(BULLET_PREFIX_PATTERN_sub(line))
    ELSE IF startswith(line, CheckboxEmpty) THEN strip(removeprefix(line, CheckboxEmpty))
    ELSE strip(removeprefix(line, CheckboxTodo))

\* cleaned_line that takes the checkboxes off before the bullet prefix
cleaned_line_checkbox_first(line) ==
    LET c1 == strip(removeprefix(line, CheckboxEmpty))
        c2 == strip(removeprefix(c1, CheckboxTodo))
    IN  strip(BULLET_PREFIX_PATTERN_sub(c2))

\* cleaned_line without the `.strip()` after each removeprefix: what follows
\* a removed checkbox stays as it is
cleaned_line_untrimmed(line) ==
    LET c1 == strip(BULLET_PREFIX_PATTERN_sub(line))
    IN  removeprefix(removeprefix(c1, CheckboxEmpty), CheckboxTodo)

\* the value of cleaned that is appended for the action line `line`
cleaned_line(line) ==
    LET c1 == strip(BULLET_PREFIX_PATTERN_sub(line))
        c2 == strip(removeprefix(c1, CheckboxEmpty))
    IN  strip(removeprefix(c2, CheckboxTodo))

\* line_step with `cleaned` appended for every line: neither the skip of
\* blank lines nor the test of _is_action_line
line_step_unfiltered(extracted0, raw_line) ==
    Append(extracted0, cleaned_line(strip(raw_line)))

\* one iteration of `for raw_line in lines`: the list extracted afterwards
line_step(extracted0, raw_line) ==
    LET line == strip(raw_line)
    IN  IF line = <<>> THEN extracted0
        ELSE IF is_action_line(line) THEN Append(extracted0, cleaned_line(line))
        ELSE extracted0

RECURSIVE line_loop(_, _)
line_loop(lines, extracted0) ==
    IF lines = <<>> THEN extracted0
    ELSE line_loop(Tail(lines), line_step(extracted0, Head(lines)))

(***************************************************************************)
(* extract_action_items: the sentence fallback                             *)
(***************************************************************************)
\* re.split(r"(?<=[.!?])\s+", t), from t[i] on: the pattern matches at the
\* next whitespace that follows ".", "!" or "?" and takes the whole run
RECURSIVE split_sentences_from(_, _)
split_sentences_from(t, i) ==
    LET matches == { k \in i..Len(t) :
                       k > 1 /\ t[k] \in Whitespace /\ t[k - 1] \in SentenceEnd }
        k == Min(matches)
    IN  IF matches = {} THEN <<SubSeq(t, i, Len(t))>>
        ELSE <<SubSeq(t, i, k - 1)>>
             \o split_sentences_from(t, run_end(t, k, Whitespace) + 1)

split_sentences(t) == split_sentences_from(t, 1)

\* re.findall(r"[A-Za-z']+", s), from s[i] on
RECURSIVE findall_words_from(_, _)
findall_words_from(s, i) ==
    LET starts == { k \in i..Len(s) : s[k] \in WordChars }
        k == Min(starts)
    IN  IF starts = {} THEN <<>>
        ELSE <<SubSeq(s, k, run_end(s, k, WordChars))>>
             \o findall_words_from(s, run_end(s, k, WordChars) + 1)

findall_words(s) == findall_words_from(s, 1)

\* the outcome of a call: an exception raised, or a value returned
Raised == [raised |-> TRUE, value |-> FALSE]

Returned(v) == [raised |-> FALSE, value |-> v]

\* list[0]: IndexError on an empty list
index0(list) == IF Len(list) = 0 THEN Raised ELSE Returned(list[1])

\* looks_imperative testing the first word as spelled:
\* `first in imperative_starters`
looks_imperative_case_sensitive(sentence) ==
    LET words == findall_words(sentence)
    IN  IF words = <<>> THEN Returned(FALSE)
        ELSE IF index0(words).raised THEN Raised
        ELSE Returned(index0(words).value \in imperative_starters)

\* looks_imperative without `if not words: return False`
looks_imperative_unguarded(sentence) ==
    LET words == findall_words(sentence)
    IN  IF index0(words).raised THEN Raised
        ELSE Returned(lower(index0(words).value) \in imperative_starters)

\* _looks_imperative
looks_imperative(sentence) ==
    LET words == findall_words(sentence)
    IN  IF words = <<>> THEN Returned(FALSE)
        ELSE IF index0(words).raised THEN Raised
        ELSE Returned(lower(index0(words).value) \in imperative_starters)

\* one iteration of `for sentence in sentences`
sentence_step(extracted0, sentence) ==
    LET s == strip(sentence)
    IN  IF s = <<>> THEN Returned(extracted0)
        ELSE IF looks_imperative(s).raised THEN Raised
        ELSE IF looks_imperative(s).value THEN Returned(Append(extracted0, s))
        ELSE Returned(extracted0)

RECURSIVE sentence_loop(_, _)
sentence_loop(sentences, extracted0) ==
    IF sentences = <<>> THEN Returned(extracted0)
    ELSE LET r == sentence_step(extracted0, Head(sentences))
         IN  IF r.raised THEN Raised ELSE sentence_loop(Tail(sentences), r.value)

(***************************************************************************)
(* extract_action_items: the deduplication loop                            *)
(***************************************************************************)
\* dedup_loop comparing the items as spelled: `if item in seen`
RECURSIVE dedup_loop_case_sensitive(_, _, _)
dedup_loop_case_sensitive(items, seen0, unique0) ==
    IF items = <<>> THEN [seen |-> seen0, unique |-> unique0]
    ELSE LET item == Head(items)
         IN  IF item \in seen0
             THEN dedup_loop_case_sensitive(Tail(items), seen0, unique0)
             ELSE dedup_loop_case_sensitive(Tail(items), seen0 \cup {item},
                                            Append(unique0, item))

\* dedup_loop keeping the lower-cased spelling: `unique.append(lowered)`
RECURSIVE dedup_loop_appends_lowered(_, _, _)
dedup_loop_appends_lowered(items, seen0, unique0) ==
    IF items = <<>> THEN [seen |-> seen0, unique |-> unique0]
    ELSE LET item == Head(items)
             lowered == lower(item)
         IN  IF lowered \in seen0
             THEN dedup_loop_appends_lowered(Tail(items), seen0, unique0)
             ELSE dedup_loop_appends_lowered(Tail(items), seen0 \cup {lowered},
                                             Append(unique0, lowered))

RECURSIVE dedup_loop(_, _, _)
dedup_loop(items, seen0, unique0) ==
    IF items = <<>> THEN [seen |-> seen0, unique |-> unique0]
    ELSE LET item == Head(items)
             lowered == lower(item)
         IN  IF lowered \in seen0
             THEN dedup_loop(Tail(items), seen0, unique0)
             ELSE dedup_loop(Tail(items), seen0 \cup {lowered}, Append(unique0, item))

(***************************************************************************)
(* Inputs: the six literal scenarios, and every text of at most MaxLines   *)
(* lines drawn from a catalogue with one line per rule of the extractor.   *)
(***************************************************************************)
LineBlank ==
    <<>>

LineSpaces ==
    <<" ", "\t">>

LineBulletCheckbox ==
    <<"-", " ", "[", " ", "]", " ", "f", "o", "o">>

LineCheckboxBullet ==
    <<"[", " ", "]", " ", "-", " ", "t", "a", "s", "k">>

LineKeyword ==
    <<"T", "O", "D", "O", ":", " ", "F", "i", "x", " ", "a">>

LineDot ==
    <<"u2022", " ", "F", "i", "x", " ", "a">>

LineNumbered ==
    <<"1", ".", " ", "f", "i", "x", " ", "a">>

LineSentences ==
    <<"F", "i", "x", " ", "a", ".", " ", "N", "o", "!", " ", "1", "2", ".", " ", "a", "d", "d",
      " ", "b">>

LineApostrophe ==
    <<"'", "f", "i", "x", " ", "a", ".">>

LineCheckboxInside ==
    <<"x", " ", "[", "T", "O", "D", "O", "]", " ", "y">>

LineTodoBox ==
    <<"[", "t", "o", "d", "o", "]", " ", "F", "i", "x", " ", "a">>

LineNoSpace ==
    <<"1", ".", "f", "i", "x", " ", "a">>

LineCheckboxOnly ==
    <<"[", " ", "]">>

Scenario1 ==
    <<"-", " ", "[", " ", "]", " ", "S", "e", "t", " ", "u", "p", " ", "t", "h", "e", " ", "d",
      "a", "t", "a", "b", "a", "s", "e", " ", "s", "c", "h", "e", "m", "a", "\n", "*", " ",
      "I", "m", "p", "l", "e", "m", "e", "n", "t", " ", "t", "h", "e", " ", "A", "P", "I", " ",
      "e", "x", "t", "r", "a", "c", "t", " ", "e", "n", "d", "p", "o", "i", "n", "t", "\n",
      "1", ".", " ", "W", "r", "i", "t", "e", " ", "u", "n", "i", "t", " ", "t", "e", "s", "t",
      "s", "\n", "R", "e", "g", "u", "l", "a", "r", " ", "n", "a", "r", "r", "a", "t", "i",
      "v", "e", " ", "t", "e", "x", "t", ".">>

Scenario2 ==
    <<"T", "O", "D", "O", ":", " ", "F", "i", "x", " ", "t", "h", "e", " ", "b", "u", "g",
      "\n", "a", "c", "t", "i", "o", "n", ":", " ", "U", "p", "d", "a", "t", "e", " ", "a",
      "u", "t", "h", "\n", "n", "e", "x", "t", ":", " ", "T", "e", "s", "t", " ", "f", "e",
      "a", "t", "u", "r", "e", "\n", "t", "o", "d", "o", ":", " ", "R", "e", "v", "i", "e",
      "w", " ", "P", "R", "s">>

Scenario3 ==
    <<"I", "m", "p", "l", "e", "m", "e", "n", "t", " ", "t", "h", "e", " ", "n", "e", "w", " ",
      "f", "e", "a", "t", "u", "r", "e", " ", "b", "y", " ", "n", "e", "x", "t", " ", "w", "e",
      "e", "k", ".", "\n", "T", "h", "i", "s", " ", "i", "s", " ", "j", "u", "s", "t", " ",
      "a", " ", "r", "e", "g", "u", "l", "a", "r", " ", "s", "e", "n", "t", "e", "n", "c", "e",
      ".", "\n", "C", "r", "e", "a", "t", "e", " ", "a", " ", "u", "s", "e", "r", " ", "d",
      "a", "s", "h", "b", "o", "a", "r", "d", ".">>

Scenario4 ==
    <<"-", " ", "S", "e", "t", " ", "u", "p", " ", "d", "a", "t", "a", "b", "a", "s", "e",
      "\n", "-", " ", "S", "E", "T", " ", "U", "P", " ", "D", "A", "T", "A", "B", "A", "S",
      "E", "\n", "-", " ", "s", "e", "t", " ", "u", "p", " ", "d", "a", "t", "a", "b", "a",
      "s", "e">>

Scenario5 ==
    <<>>

Scenario6 ==
    <<"J", "u", "s", "t", " ", "n", "a", "r", "r", "a", "t", "i", "v", "e", " ", "t", "e", "x",
      "t", " ", "w", "i", "t", "h", " ", "n", "o", " ", "m", "a", "r", "k", "e", "r", "s", " ",
      "a", "n", "d", " ", "n", "o", " ", "i", "m", "p", "e", "r", "a", "t", "i", "v", "e", " ",
      "o", "p", "e", "n", "e", "r", "s", ".">>

Catalogue ==
    { LineBlank, LineSpaces, LineBulletCheckbox, LineCheckboxBullet, LineKeyword,
      LineDot, LineNumbered, LineSentences, LineApostrophe, LineCheckboxInside,
      LineTodoBox, LineNoSpace, LineCheckboxOnly }

Scenarios == {Scenario1, Scenario2, Scenario3, Scenario4, Scenario5, Scenario6}

MaxLines == 3

NumCallers == 3

RECURSIVE join_lines(_)
join_lines(ls) ==
    IF ls = <<>> THEN <<>>
    ELSE IF Len(ls) = 1 THEN ls[1]
    ELSE ls[1] \o <<"\n">> \o join_lines(Tail(ls))

Texts ==
    Scenarios \cup
    { join_lines(ls) : ls \in UNION { [1..n -> Catalogue] : n \in 0..MaxLines } }

\* the inputs of concurrent invocations
ConcTexts ==
    { Scenario4, Scenario3,
      join_lines(<<LineDot, LineBulletCheckbox, LineNumbered>>) }

(***************************************************************************)
(* extract_action_items_llm, lines 75-124.  The answer of ollama's chat is *)
(* the environment's: the call raises, or returns a response without a     *)
(* message, with a message without content, or with a message whose        *)
(* content is None, text that is not JSON, or a JSON value.                *)
(***************************************************************************)
JsonString(s) == [type |-> "string", str |-> s]

JsonArray(elems) == [type |-> "array", elems |-> elems]

JsonObject(members) == [type |-> "object", members |-> members]

JsonNumber == [type |-> "number"]

JsonNull == [type |-> "null"]

ChatRaises == [kind |-> "raises", content |-> [kind |-> "none"]]

ChatNoMessage == [kind |-> "no_message", content |-> [kind |-> "none"]]

ChatNoContent == [kind |-> "no_content", content |-> [kind |-> "none"]]

ChatContentNone == [kind |-> "message", content |-> [kind |-> "none"]]

ChatContentText == [kind |-> "message", content |-> [kind |-> "text"]]

ChatContentJson(v) == [kind |-> "message", content |-> [kind |-> "json", value |-> v]]

\* ActionItemsResponse.model_validate_json(content): the content is JSON,
\* an object with a member "action_items" that is an array of strings
model_validate_json(content) ==
    LET v == content.value
        valid ==
            /\ content.kind = "json"
            /\ v.type = "object"
            /\ "action_items" \in DOMAIN v.members
            /\ v.members.action_items.type = "array"
            /\ \A i \in DOMAIN v.members.action_items.elems :
                   v.members.action_items.elems[i].type = "string"
    IN  IF valid
        THEN Returned([action_items |->
                 [i \in DOMAIN v.members.action_items.elems |->
                      v.members.action_items.elems[i].str]])
        ELSE Raised

\* line 118 keeping the items as the model gave them
kept_items_untrimmed(action_items) ==
    LET keep(item) == item # <<>> /\ strip(item) # <<>>
    IN  SelectSeq(action_items, keep)

\* line 118: [item.strip() for item in ... if item and item.strip()]
kept_items(action_items) ==
    LET keep(item) == item # <<>> /\ strip(item) # <<>>
        kept == SelectSeq(action_items, keep)
    IN  [i \in DOMAIN kept |-> strip(kept[i])]

\* extract_action_items_llm that returns the items of the action lines of
\* the text when the model call fails
extract_action_items_llm_falls_back(t, response) ==
    LET data == model_validate_json(response.content)
        from_lines == Returned(dedup_loop(line_loop(splitlines(t), <<>>), {}, <<>>).unique)
    IN  IF response.kind = "raises"
        THEN from_lines
        ELSE IF response.kind \in {"no_message", "no_content"}
        THEN from_lines
        ELSE IF data.raised
        THEN from_lines
        ELSE Returned(kept_items(data.value.action_items))

\* extract_action_items_llm without the handler `except Exception`
extract_action_items_llm_uncaught(t, response) ==
    LET data == model_validate_json(response.content)
    IN  IF response.kind = "raises"
        THEN Raised
        ELSE IF response.kind \in {"no_message", "no_content"}
        THEN Returned(<<>>)
        ELSE IF data.raised
        THEN Raised
        ELSE Returned(kept_items(data.value.action_items))

\* extract_action_items_llm(t) when chat answers with response
extract_action_items_llm(t, response) ==
    LET data == model_validate_json(response.content)
    IN  IF response.kind = "raises"
        THEN Returned(<<>>)
        ELSE IF response.kind \in {"no_message", "no_content"}
        THEN Returned(<<>>)
        ELSE IF data.raised
        THEN Returned(<<>>)
        ELSE Returned(kept_items(data.value.action_items))

(***************************************************************************)
(* week2/app/exceptions.py: the exception classes, and what an `except`    *)
(* clause catches.                                                         *)
(***************************************************************************)
\* no exception
NoError == "None"

\* the classes an exception of class cls is an instance of
ExceptionBases(cls) ==
    CASE cls = "NoteNotFoundError" ->
             {"NoteNotFoundError", "DatabaseError", "Exception"}
      [] cls = "ActionItemNotFoundError" ->
             {"ActionItemNotFoundError", "DatabaseError", "Exception"}
      [] cls = "DatabaseError" -> {"DatabaseError", "Exception"}
      [] OTHER -> {cls, "Exception"}

\* `except cls` catches the raised exception exc
isinstance(exc, cls) == exc # NoError /\ cls \in ExceptionBases(exc)

\* Python's None and a value that is not None, for Optional[...]
None == <<>>

Some(v) == <<v>>

(***************************************************************************)
(* week2/app/db.py.  A store value holds the two tables in insertion order *)
(* and sqlite_sequence, the counters of AUTOINCREMENT.  A function of      *)
(* db.py is an operator from the store it finds to its outcome: the store  *)
(* it leaves, the exception it raises (or NoError) and the value it        *)
(* returns.                                                                *)
(***************************************************************************)
\* init_db on a new file
EmptyStore ==
    [notes |-> <<>>,
     action_items |-> <<>>,
     sqlite_sequence |-> [notes |-> 0, action_items |-> 0]]

Completes(db1, v) == [db |-> db1, raised |-> NoError, value |-> v]

Raises(db1, exc) == [db |-> db1, raised |-> exc, value |-> None]

\* get_connection that commits what the block did when the block raises
get_connection_commits_on_error(db0, block) ==
    IF block.raised = NoError
    THEN Completes(block.db, block.value)
    ELSE Raises(block.db, "DatabaseError")

\* `with get_connection() as connection: <block>` on the store db0, where
\* block is the outcome of the block on the connection: commit when the
\* block completes; on any exception roll back and raise DatabaseError
get_connection(db0, block) ==
    IF block.raised = NoError
    THEN Completes(block.db, block.value)
    ELSE Raises(db0, "DatabaseError")

\* the handlers `except sqlite3.Error` around the `with` statements
except_sqlite3_Error(out) ==
    IF isinstance(out.raised, "sqlite3.Error")
    THEN Raises(out.db, "DatabaseError")
    ELSE out

\* the rows of a table with the id i
rows_with_id(rows, i) ==
    LET has_id(r) == r.id = i
    IN  SelectSeq(rows, has_id)

\* cursor.fetchone() turned into `dict(row)` or None
fetchone(rows) == IF rows # <<>> THEN Some(rows[1]) ELSE None

\* ORDER BY id DESC
RECURSIVE order_by_id_desc(_)
order_by_id_desc(rows) ==
    IF rows = <<>>
    THEN <<>>
    ELSE LET m == CHOOSE i \in DOMAIN rows :
                      \A j \in DOMAIN rows : rows[j].id <= rows[i].id
             rest == [j \in 1..(Len(rows) - 1) |->
                          IF j < m THEN rows[j] ELSE rows[j + 1]]
         IN  <<rows[m]>> \o order_by_id_desc(rest)

\* insert_note at time t; fault: the statement fails with sqlite3.Error
\* insert_note on a table without AUTOINCREMENT bookkeeping: the counter of
\* the notes table is not advanced
insert_note_keeps_counter(db0, content, t, fault) ==
    LET lastrowid == db0.sqlite_sequence.notes + 1
        row == [id |-> lastrowid, content |-> content, created_at |-> t]
        block ==
            IF fault
            THEN Raises(db0, "sqlite3.Error")
            ELSE Completes([db0 EXCEPT !.notes = Append(@, row)], lastrowid)
    IN  except_sqlite3_Error(get_connection(db0, block))

insert_note(db0, content, t, fault) ==
    LET lastrowid == db0.sqlite_sequence.notes + 1
        row == [id |-> lastrowid, content |-> content, created_at |-> t]
        block ==
            IF fault
            THEN Raises(db0, "sqlite3.Error")
            ELSE Completes([db0 EXCEPT !.notes = Append(@, row),
                                       !.sqlite_sequence.notes = lastrowid],
                           lastrowid)
    IN  except_sqlite3_Error(get_connection(db0, block))

get_note(db0, note_id, fault) ==
    LET block ==
            IF fault
            THEN Raises(db0, "sqlite3.Error")
            ELSE Completes(db0, fetchone(rows_with_id(db0.notes, note_id)))
    IN  except_sqlite3_Error(get_connection(db0, block))

\* list_notes returning the rows as the table holds them
list_notes_unordered(db0, fault) ==
    get_connection(db0, Completes(db0, db0.notes))

list_notes(db0, fault) ==
    LET block ==
            IF fault
            THEN Raises(db0, "sqlite3.Error")
            ELSE Completes(db0, order_by_id_desc(db0.notes))
    IN  except_sqlite3_Error(get_connection(db0, block))

\* insert_action_items that refers each item to the note stored last
\* instead of the note_id it is given
insert_action_items_latest_note(db0, items, note_id, t, fault) ==
    LET seq0 == db0.sqlite_sequence.action_items
        latest == IF db0.notes = <<>> THEN None
                  ELSE Some(db0.notes[Len(db0.notes)].id)
        rows == [i \in 1..Len(items) |->
                    [id |-> seq0 + i, note_id |-> latest, text |-> items[i],
                     done |-> 0, created_at |-> t]]
        block ==
            IF fault \in 1..Len(items)
            THEN Raises(db0, "sqlite3.Error")
            ELSE Completes([db0 EXCEPT !.action_items = @ \o rows,
                                       !.sqlite_sequence.action_items =
                                           seq0 + Len(items)],
                           [i \in 1..Len(items) |-> seq0 + i])
    IN  IF items = <<>>
        THEN Completes(db0, <<>>)
        ELSE except_sqlite3_Error(get_connection(db0, block))

\* insert_action_items whose failing INSERT leaves the rows inserted before
\* it in the store
insert_action_items_keeps_partial(db0, items, note_id, t, fault) ==
    LET seq0 == db0.sqlite_sequence.action_items
        rows_upto(n) ==
            [i \in 1..n |->
                [id |-> seq0 + i, note_id |-> note_id, text |-> items[i],
                 done |-> 0, created_at |-> t]]
        inserted(n) ==
            [db0 EXCEPT !.action_items = @ \o rows_upto(n),
                        !.sqlite_sequence.action_items = seq0 + n]
    IN  IF items = <<>>
        THEN Completes(db0, <<>>)
        ELSE IF fault \in 1..Len(items)
        THEN Raises(inserted(fault - 1), "DatabaseError")
        ELSE Completes(inserted(Len(items)), [i \in 1..Len(items) |-> seq0 + i])

\* insert_action_items on a connection without PRAGMA foreign_keys = ON:
\* the note_id is not checked
insert_action_items_no_foreign_key(db0, items, note_id, t, fault) ==
    LET seq0 == db0.sqlite_sequence.action_items
        rows == [i \in 1..Len(items) |->
                    [id |-> seq0 + i, note_id |-> note_id, text |-> items[i],
                     done |-> 0, created_at |-> t]]
        block ==
            IF fault \in 1..Len(items)
            THEN Raises(db0, "sqlite3.Error")
            ELSE Completes([db0 EXCEPT !.action_items = @ \o rows,
                                       !.sqlite_sequence.action_items =
                                           seq0 + Len(items)],
                           [i \in 1..Len(items) |-> seq0 + i])
    IN  IF items = <<>>
        THEN Completes(db0, <<>>)
        ELSE except_sqlite3_Error(get_connection(db0, block))

\* insert_action_items at time t; note_id is None or Some(id); fault is 0
\* or the number of the INSERT statement that fails with sqlite3.Error.
\* With PRAGMA foreign_keys = ON the first INSERT fails when note_id is the
\* id of no note.
insert_action_items(db0, items, note_id, t, fault) ==
    LET seq0 == db0.sqlite_sequence.action_items
        rows_upto(n) ==
            [i \in 1..n |->
                [id |-> seq0 + i, note_id |-> note_id, text |-> items[i],
                 done |-> 0, created_at |-> t]]
        inserted(n) ==
            [db0 EXCEPT !.action_items = @ \o rows_upto(n),
                        !.sqlite_sequence.action_items = seq0 + n]
        foreign_key_ok ==
            note_id = None \/ rows_with_id(db0.notes, note_id[1]) # <<>>
        fail_at == IF foreign_key_ok THEN fault ELSE 1
        block ==
            IF fail_at \in 1..Len(items)
            THEN Raises(inserted(fail_at - 1), "sqlite3.Error")
            ELSE Completes(inserted(Len(items)),
                           [i \in 1..Len(items) |-> seq0 + i])
    IN  IF items = <<>>
        THEN Completes(db0, <<>>)
        ELSE except_sqlite3_Error(get_connection(db0, block))

get_action_item(db0, action_item_id, fault) ==
    LET block ==
            IF fault
            THEN Raises(db0, "sqlite3.Error")
            ELSE Completes(db0, fetchone(rows_with_id(db0.action_items,
                                                      action_item_id)))
    IN  except_sqlite3_Error(get_connection(db0, block))

\* note_id is None (no filter) or Some(id)
list_action_items(db0, note_id, fault) ==
    LET of_note(r) == r.note_id = note_id
        block ==
            IF fault
            THEN Raises(db0, "sqlite3.Error")
            ELSE IF note_id = None
            THEN Completes(db0, order_by_id_desc(db0.action_items))
            ELSE Completes(db0, order_by_id_desc(SelectSeq(db0.action_items,
                                                           of_note)))
    IN  except_sqlite3_Error(get_connection(db0, block))

\* mark_action_item_done that sets the flag only of a row whose flag differs
mark_action_item_done_toggles(db0, action_item_id, done, fault) ==
    LET flag == IF done THEN 1 ELSE 0
        changed == { i \in DOMAIN db0.action_items :
                        /\ db0.action_items[i].id = action_item_id
                        /\ db0.action_items[i].done # flag }
        updated ==
            [db0 EXCEPT !.action_items =
                [i \in DOMAIN @ |-> IF i \in changed
                                    THEN [@[i] EXCEPT !.done = flag]
                                    ELSE @[i]]]
    IN  IF changed = {}
        THEN Raises(db0, "DatabaseError")
        ELSE Completes(updated, None)

\* mark_action_item_done that sets the flag of every row
mark_action_item_done_all_rows(db0, action_item_id, done, fault) ==
    LET flag == IF done THEN 1 ELSE 0
        updated ==
            [db0 EXCEPT !.action_items =
                [i \in DOMAIN @ |-> [@[i] EXCEPT !.done = flag]]]
    IN  IF rows_with_id(db0.action_items, action_item_id) = <<>>
        THEN Raises(db0, "DatabaseError")
        ELSE Completes(updated, None)

\* mark_action_item_done: the UPDATE, then ActionItemNotFoundError raised
\* inside the `with` block when no row was updated; the handlers
\* `except ActionItemNotFoundError: raise` and `except sqlite3.Error`
mark_action_item_done(db0, action_item_id, done, fault) ==
    LET flag == IF done THEN 1 ELSE 0
        matched == { i \in DOMAIN db0.action_items :
                        db0.action_items[i].id = action_item_id }
        rowcount == Cardinality(matched)
        updated ==
            [db0 EXCEPT !.action_items =
                [i \in DOMAIN @ |-> IF i \in matched
                                    THEN [@[i] EXCEPT !.done = flag]
                                    ELSE @[i]]]
        block ==
            IF fault
            THEN Raises(db0, "sqlite3.Error")
            ELSE IF rowcount = 0
            THEN Raises(updated, "ActionItemNotFoundError")
            ELSE Completes(updated, None)
        out == get_connection(db0, block)
    IN  IF isinstance(out.raised, "ActionItemNotFoundError")
        THEN out
        ELSE except_sqlite3_Error(out)

(***************************************************************************)
(* week2/app/schemas.py, routers/notes.py, routers/action_items.py: a      *)
(* handler is an operator from the store it finds to the store it leaves   *)
(* and the HTTP response.                                                  *)
(***************************************************************************)
Respond(db1, status, body) == [db |-> db1, status |-> status, body |-> body]

\* NoteCreateRequest.validate_content, ExtractActionItemsRequest.validate_text:
\* the stripped value, or None when it is rejected
validate_text(v) == IF strip(v) = <<>> THEN None ELSE Some(strip(v))

NoteResponse(note) ==
    [id |-> note.id, content |-> note.content, created_at |-> note.created_at]

\* POST /notes; fault: 0, or the number of the db call that fails
create_note(db0, content, t, fault) ==
    LET request == validate_text(content)
        inserted == insert_note(db0, request[1], t, fault = 1)
        found == get_note(inserted.db, inserted.value, fault = 2)
    IN  IF request = None
        THEN Respond(db0, 422, None)
        ELSE IF isinstance(inserted.raised, "DatabaseError")
        THEN Respond(inserted.db, 500, None)
        ELSE IF isinstance(found.raised, "DatabaseError")
        THEN Respond(found.db, 500, None)
        ELSE IF found.value = None
        THEN Respond(found.db, 500, None)
        ELSE Respond(found.db, 201, NoteResponse(found.value[1]))

\* get_single_note that answers 200 with an empty note for an unknown id
get_single_note_no_404(db0, note_id, fault) ==
    LET found == get_note(db0, note_id, fault)
    IN  IF found.raised # NoError
        THEN Respond(found.db, 500, None)
        ELSE IF found.value = None
        THEN Respond(found.db, 200, [id |-> note_id, content |-> <<>>, created_at |-> ""])
        ELSE Respond(found.db, 200, NoteResponse(found.value[1]))

\* GET /notes/{note_id}
get_single_note(db0, note_id, fault) ==
    LET found == get_note(db0, note_id, fault)
        raised == IF found.raised # NoError THEN found.raised
                  ELSE IF found.value = None THEN "NoteNotFoundError"
                  ELSE NoError
    IN  IF isinstance(raised, "NoteNotFoundError")
        THEN Respond(found.db, 404, None)
        ELSE IF isinstance(raised, "DatabaseError")
        THEN Respond(found.db, 500, None)
        ELSE Respond(found.db, 200, NoteResponse(found.value[1]))

\* GET /notes
list_all_notes(db0, fault) ==
    LET listed == list_notes(db0, fault)
        notes == [i \in DOMAIN listed.value |-> NoteResponse(listed.value[i])]
    IN  IF isinstance(listed.raised, "DatabaseError")
        THEN Respond(listed.db, 500, None)
        ELSE Respond(listed.db, 200, [notes |-> notes, count |-> Len(notes)])

ActionItemResponse(row) ==
    [id |-> row.id, note_id |-> row.note_id, text |-> row.text,
     done |-> row.done # 0, created_at |-> row.created_at]

\* GET /action-items
list_all(db0, note_id, fault) ==
    LET listed == list_action_items(db0, note_id, fault)
        rows == [i \in DOMAIN listed.value |-> ActionItemResponse(listed.value[i])]
    IN  IF isinstance(listed.raised, "DatabaseError")
        THEN Respond(listed.db, 500, None)
        ELSE Respond(listed.db, 200, [items |-> rows, count |-> Len(rows)])

\* POST /action-items/{action_item_id}/done
mark_done(db0, action_item_id, done, fault) ==
    LET out == mark_action_item_done(db0, action_item_id, done, fault)
    IN  IF isinstance(out.raised, "ActionItemNotFoundError")
        THEN Respond(out.db, 404, None)
        ELSE IF isinstance(out.raised, "DatabaseError")
        THEN Respond(out.db, 500, None)
        ELSE Respond(out.db, 200, [id |-> action_item_id, done |-> done])

(***************************************************************************)
(* State: one entry per invocation c of extract_action_items.              *)
(***************************************************************************)
VARIABLES
    text,          \* text[c]: the argument
    pc,            \* pc[c]: "lines", "fallback", "dedup", "return", "returned", "raised"
    extracted,     \* extracted[c]: the local list extracted
    line_items,    \* line_items[c]: extracted as the line loop left it
    fallback_ran,  \* fallback_ran[c]: the branch `if not extracted` was taken
    seen,          \* seen[c]: the local set seen
    unique,        \* unique[c]: the local list unique
    result         \* result[c]: the list returned to the caller

\* the application around the extractor, and the week 1 script
VARIABLES
    db,            \* the store: the committed content of the sqlite file
    request,       \* the extract request being handled and how far it is
    served,        \* the last request served in one step and its response
    llm,           \* llm[k]: an invocation of extract_action_items_llm
    prompt,        \* the run of test_your_prompt
    conn           \* one use of `with get_connection()`

extractVars == <<text, pc, extracted, line_items, fallback_ran, seen, unique, result>>

storeVars == <<db, request, served>>

vars == <<extractVars, storeVars, llm, prompt, conn>>

\* no request has been served in one step
NothingServed == [op |-> "none"]

\* the application is not running
StoreAbsent ==
    /\ db = EmptyStore
    /\ request = <<>>
    /\ served = NothingServed

\* extract_action_items_llm is not called
LLMAbsent == llm = <<>>

\* test_your_prompt is not run
PromptAbsent == prompt = <<>>

\* get_connection is not followed step by step
ConnAbsent == conn = <<>>

Calls == DOMAIN pc

InitCalls(inputs) ==
    /\ text = inputs
    /\ pc = [c \in DOMAIN inputs |-> "lines"]
    /\ extracted = [c \in DOMAIN inputs |-> <<>>]
    /\ line_items = [c \in DOMAIN inputs |-> <<>>]
    /\ fallback_ran = [c \in DOMAIN inputs |-> FALSE]
    /\ seen = [c \in DOMAIN inputs |-> {}]
    /\ unique = [c \in DOMAIN inputs |-> <<>>]
    /\ result = [c \in DOMAIN inputs |-> <<>>]

\* one invocation, on any input
Init ==
    /\ \E inputs \in [{1} -> Texts] : InitCalls(inputs)
    /\ StoreAbsent /\ LLMAbsent /\ PromptAbsent /\ ConnAbsent

\* NumCallers concurrent invocations
InitConc ==
    /\ \E inputs \in [1..NumCallers -> ConcTexts] : InitCalls(inputs)
    /\ StoreAbsent /\ LLMAbsent /\ PromptAbsent /\ ConnAbsent

\* lines 36-48
LineLoop(c) ==
    /\ pc[c] = "lines"
    /\ extracted' = [extracted EXCEPT ![c] = line_loop(splitlines(text[c]), <<>>)]
    /\ line_items' = [line_items EXCEPT ![c] = extracted'[c]]
    /\ pc' = [pc EXCEPT ![c] = "fallback"]
    /\ UNCHANGED <<text, fallback_ran, seen, unique, result>>

\* fallback_needed taking a list of empty items for an empty list:
\* `if not any(extracted)`
fallback_needed_ignores_empty_items(items) ==
    \A i \in 1..Len(items) : items[i] = <<>>

\* line 50: `if not extracted`
fallback_needed(items) == items = <<>>

\* lines 50-57, the branch taken
Fallback(c) ==
    /\ pc[c] = "fallback"
    /\ fallback_needed(extracted[c])
    /\ LET r == sentence_loop(split_sentences(strip(text[c])), extracted[c])
       IN  IF r.raised
           THEN /\ pc' = [pc EXCEPT ![c] = "raised"]
                /\ UNCHANGED extracted
           ELSE /\ pc' = [pc EXCEPT ![c] = "dedup"]
                /\ extracted' = [extracted EXCEPT ![c] = r.value]
    /\ fallback_ran' = [fallback_ran EXCEPT ![c] = TRUE]
    /\ UNCHANGED <<text, line_items, seen, unique, result>>

\* line 50, the branch not taken
NoFallback(c) ==
    /\ pc[c] = "fallback"
    /\ ~fallback_needed(extracted[c])
    /\ pc' = [pc EXCEPT ![c] = "dedup"]
    /\ UNCHANGED <<text, extracted, line_items, fallback_ran, seen, unique, result>>

\* seen_at_entry with seen a set of the module, shared by the invocations
seen_at_entry_shared(c) == UNION { seen[d] : d \in Calls }

\* line 59: seen starts as a new empty set of the invocation
seen_at_entry(c) == {}

\* lines 59-66
Dedup(c) ==
    /\ pc[c] = "dedup"
    /\ LET r == dedup_loop(extracted[c], seen_at_entry(c), <<>>)
       IN  /\ seen' = [seen EXCEPT ![c] = r.seen]
           /\ unique' = [unique EXCEPT ![c] = r.unique]
    /\ pc' = [pc EXCEPT ![c] = "return"]
    /\ UNCHANGED <<text, extracted, line_items, fallback_ran, result>>

\* line 67
Return(c) ==
    /\ pc[c] = "return"
    /\ result' = [result EXCEPT ![c] = unique[c]]
    /\ pc' = [pc EXCEPT ![c] = "returned"]
    /\ UNCHANGED <<text, extracted, line_items, fallback_ran, seen, unique>>

Next ==
    \/ \E c \in Calls : LineLoop(c) /\ UNCHANGED <<storeVars, llm, prompt, conn>>
    \/ \E c \in Calls : Fallback(c) /\ UNCHANGED <<storeVars, llm, prompt, conn>>
    \/ \E c \in Calls : NoFallback(c) /\ UNCHANGED <<storeVars, llm, prompt, conn>>
    \/ \E c \in Calls : Dedup(c) /\ UNCHANGED <<storeVars, llm, prompt, conn>>
    \/ \E c \in Calls : Return(c) /\ UNCHANGED <<storeVars, llm, prompt, conn>>

Spec == Init /\ [][Next]_vars

ConcSpec == InitConc /\ [][Next]_vars

(***************************************************************************)
(* extract_action_items as one operator: lines 35-67 in order.             *)
(***************************************************************************)
extract_action_items(t) ==
    LET from_lines == line_loop(splitlines(t), <<>>)
        after_fallback ==
            IF fallback_needed(from_lines)
            THEN sentence_loop(split_sentences(strip(t)), from_lines)
            ELSE Returned(from_lines)
    IN  IF after_fallback.raised
        THEN Raised
        ELSE Returned(dedup_loop(after_fallback.value, {}, <<>>).unique)

(***************************************************************************)
(* The application: the store behind the HTTP handlers.  A handler that    *)
(* makes its db calls one after the other with nothing to wait for is one  *)
(* step; an extract request is four steps (save the note, extract, insert  *)
(* the items, build the response), each db call its own transaction, and   *)
(* other request run between them.  One extract request is handled at a   *)
(* time; the next one arrives when it has been answered.                   *)
(***************************************************************************)
\* inputs
NotePadded == <<" ", "h", "i", " ">>

TextTwoItems == join_lines(<<LineBulletCheckbox, LineKeyword>>)

TextOneItem == <<" ">> \o LineNumbered

NoteContents == {NotePadded, LineSpaces}

StoreTexts == {TextOneItem, LineSpaces}

\* the answers of chat met by the extract request
StoreChatResponses ==
    << ChatRaises,
       ChatContentJson(JsonObject([action_items |->
           JsonArray(<<JsonString(<<" ", "a">>), JsonString(<<>>),
                       JsonString(<<"b">>)>>)])) >>

MaxNotes == 2

MaxItems == 1

\* what datetime('now') may give, in the order of time
Timestamps == <<"2024-12-27 10:30:00", "2024-12-27 10:30:01">>

\* what datetime('now') may give in the store db0: the time of the latest
\* row or a later time
Clock(db0) ==
    LET stamps == {db0.notes[i].created_at : i \in DOMAIN db0.notes}
                      \cup {db0.action_items[i].created_at : i \in DOMAIN db0.action_items}
        latest == Max({1} \cup {k \in DOMAIN Timestamps : Timestamps[k] \in stamps})
    IN  {Timestamps[k] : k \in latest..Len(Timestamps)}

\* chat is not called, or not yet
ChatNotCalled == [kind |-> "not_called", content |-> [kind |-> "none"]]

\* the body of a response that lists no item
NoBody == [note_id |-> None, items |-> <<>>, extraction_method |-> ""]

IdleRequest ==
    [pc |-> "idle", endpoint |-> "", text |-> <<>>, save_note |-> FALSE,
     use_llm |-> FALSE, note_id |-> None, items |-> <<>>, item_ids |-> <<>>,
     extraction_method |-> "", response |-> ChatNotCalled, status |-> 0,
     body |-> NoBody]

StoreInit ==
    /\ InitCalls(<<>>)
    /\ db = EmptyStore
    /\ request = IdleRequest
    /\ served = NothingServed
    /\ LLMAbsent /\ PromptAbsent /\ ConnAbsent

\* the request served in one step: its arguments, whether a statement of
\* it failed, the store it found and the store it left, and its response
Served(op, args, fault, out) ==
    [op |-> op, args |-> args, fault |-> fault, before |-> db, after |-> out.db,
     status |-> out.status, body |-> out.body]

\* POST /notes
CreateNote(content, t, fault) ==
    /\ Len(db.notes) < MaxNotes
    /\ LET out == create_note(db, content, t, fault)
       IN  /\ db' = out.db
           /\ served' = Served("create_note", <<content>>, fault # 0, out)
    /\ UNCHANGED request

\* GET /notes/{note_id}
GetSingleNote(note_id, fault) ==
    /\ LET out == get_single_note(db, note_id, fault)
       IN  /\ db' = out.db
           /\ served' = Served("get_single_note", <<note_id>>, fault, out)
    /\ UNCHANGED request

\* GET /notes
ListAllNotes(fault) ==
    /\ LET out == list_all_notes(db, fault)
       IN  /\ db' = out.db
           /\ served' = Served("list_all_notes", <<>>, fault, out)
    /\ UNCHANGED request

\* GET /action-items
ListAll(note_id, fault) ==
    /\ LET out == list_all(db, note_id, fault)
       IN  /\ db' = out.db
           /\ served' = Served("list_all", <<note_id>>, fault, out)
    /\ UNCHANGED request

\* POST /action-items/{action_item_id}/done
MarkDone(action_item_id, done, fault) ==
    /\ LET out == mark_done(db, action_item_id, done, fault)
       IN  /\ db' = out.db
           /\ served' = Served("mark_done", <<action_item_id, done>>, fault, out)
    /\ UNCHANGED request

\* the request answers with status and body
Answer(status, body) ==
    request' = [request EXCEPT !.pc = "done", !.status = status,
                                 !.body = body]

\* POST /action-items/extract and /action-items/extract-llm, up to line 49
\* (125): the request is validated and the note saved if asked
ExtractReceive(endpoint, content, save_note, use_llm, t, fault) ==
    /\ request.pc \in {"idle", "done"}
    /\ Len(db.action_items) < MaxItems
    /\ save_note => Len(db.notes) < MaxNotes
    /\ LET valid == validate_text(content)
           saved == insert_note(db, valid[1], t, fault)
           received == [IdleRequest EXCEPT !.endpoint = endpoint,
                                           !.text = valid[1],
                                           !.save_note = save_note,
                                           !.use_llm = use_llm]
       IN  IF valid = None
           THEN /\ request' = [IdleRequest EXCEPT !.endpoint = endpoint,
                                                   !.pc = "done",
                                                   !.status = 422]
                /\ db' = db
           ELSE IF ~save_note
           THEN /\ request' = [received EXCEPT !.pc = "extract"]
                /\ db' = db
           ELSE IF isinstance(saved.raised, "DatabaseError")
           THEN /\ request' = [received EXCEPT !.pc = "done",
                                                !.status = 500]
                /\ db' = saved.db
           ELSE /\ request' = [received EXCEPT !.pc = "extract",
                                                !.note_id = Some(saved.value)]
                /\ db' = saved.db
    /\ UNCHANGED served

\* lines 51-57 (127-129): the items, from the model or from the heuristic
ExtractItems(response) ==
    /\ request.pc = "extract"
    /\ LET with_llm == request.endpoint = "extract-llm" \/ request.use_llm
           out == IF with_llm
                  THEN extract_action_items_llm(request.text, response)
                  ELSE extract_action_items(request.text)
       IN  IF out.raised
           THEN Answer(500, NoBody)
           ELSE request' = [request EXCEPT
                    !.pc = "insert",
                    !.items = out.value,
                    !.response = IF with_llm THEN response ELSE ChatNotCalled,
                    !.extraction_method =
                        IF with_llm THEN "llm" ELSE "heuristic"]
    /\ UNCHANGED <<db, served>>

\* ExtractInsert in one transaction with the insertion of the note: a
\* failure takes the note of the request out of the store again
ExtractInsert_rolls_back_note(t, fault) ==
    /\ request.pc = "insert"
    /\ LET out == insert_action_items(db, request.items,
                                      request.note_id, t, fault)
           of_request(r) == Some(r.id) = request.note_id
           other(r) == ~of_request(r)
       IN  IF request.items = <<>>
           THEN /\ request' = [request EXCEPT !.pc = "respond",
                                                !.item_ids = <<>>]
                /\ db' = db
           ELSE IF isinstance(out.raised, "DatabaseError")
           THEN /\ Answer(500, NoBody)
                /\ db' = [out.db EXCEPT !.notes = SelectSeq(@, other)]
           ELSE /\ request' = [request EXCEPT !.pc = "respond",
                                                !.item_ids = out.value]
                /\ db' = out.db
    /\ UNCHANGED served

\* lines 59-63 (131-135): the items are stored
ExtractInsert(t, fault) ==
    /\ request.pc = "insert"
    /\ LET out == insert_action_items(db, request.items,
                                      request.note_id, t, fault)
       IN  IF request.items = <<>>
           THEN /\ request' = [request EXCEPT !.pc = "respond",
                                                !.item_ids = <<>>]
                /\ db' = db
           ELSE IF isinstance(out.raised, "DatabaseError")
           THEN /\ Answer(500, NoBody)
                /\ db' = out.db
           ELSE /\ request' = [request EXCEPT !.pc = "respond",
                                                !.item_ids = out.value]
                /\ db' = out.db
    /\ UNCHANGED served

\* lines 65-87 (137-159): the response, with created_at read from the store
ExtractRespond(fault) ==
    /\ request.pc = "respond"
    /\ LET q == request
           n == Min({Len(q.item_ids), Len(q.items)})
           db_item(i) == get_action_item(db, q.item_ids[i], fault = i)
           action_items ==
               [i \in 1..n |->
                   [id |-> q.item_ids[i], note_id |-> q.note_id,
                    text |-> q.items[i], done |-> FALSE,
                    created_at |-> IF db_item(i).value # None
                                   THEN db_item(i).value[1].created_at
                                   ELSE ""]]
       IN  IF \E i \in 1..n : isinstance(db_item(i).raised, "DatabaseError")
           THEN Answer(500, NoBody)
           ELSE Answer(200, [note_id |-> q.note_id, items |-> action_items,
                                extraction_method |-> q.extraction_method])
    /\ UNCHANGED <<db, served>>

StoreNext ==
    \/ \E content \in NoteContents, t \in Clock(db), fault \in 0..2 :
           CreateNote(content, t, fault) /\ UNCHANGED <<extractVars, llm, prompt, conn>>
    \/ \E note_id \in 1..(Len(db.notes) + 1) :
           GetSingleNote(note_id, FALSE) /\ UNCHANGED <<extractVars, llm, prompt, conn>>
    \/ ListAllNotes(FALSE) /\ UNCHANGED <<extractVars, llm, prompt, conn>>
    \/ \E note_id \in {None} \cup {Some(i) : i \in 1..(Len(db.notes) + 1)} :
           ListAll(note_id, FALSE) /\ UNCHANGED <<extractVars, llm, prompt, conn>>
    \/ \E action_item_id \in 1..(Len(db.action_items) + 1),
          done \in BOOLEAN, fault \in BOOLEAN :
           MarkDone(action_item_id, done, fault)
               /\ UNCHANGED <<extractVars, llm, prompt, conn>>
    \/ \E endpoint \in {"extract", "extract-llm"},
          content \in StoreTexts, save_note \in BOOLEAN, use_llm \in BOOLEAN,
          t \in Clock(db), fault \in BOOLEAN :
           /\ endpoint = "extract-llm" => ~use_llm
           /\ ExtractReceive(endpoint, content, save_note, use_llm, t, fault)
               /\ UNCHANGED <<extractVars, llm, prompt, conn>>
    \/ \E k \in DOMAIN StoreChatResponses :
           ExtractItems(StoreChatResponses[k])
               /\ UNCHANGED <<extractVars, llm, prompt, conn>>
    \/ \E t \in Clock(db), fault \in 0..2 :
           ExtractInsert(t, fault) /\ UNCHANGED <<extractVars, llm, prompt, conn>>
    \/ \E fault \in 0..2 :
           ExtractRespond(fault) /\ UNCHANGED <<extractVars, llm, prompt, conn>>

StoreSpec == StoreInit /\ [][StoreNext]_vars

(***************************************************************************)
(* One invocation of extract_action_items_llm: the prompt is sent, the     *)
(* environment answers, the answer is parsed.                              *)
(***************************************************************************)
LLMTexts == {LineBulletCheckbox, LineKeyword, LineSentences}

ItemA == <<"a">>

ItemB == <<"b">>

ItemUpperA == <<"A">>

ItemPadded == <<" ", "a", " ", "b", "\t">>

ItemLeading == <<"\n", "a">>

ValidAnswer(strs) ==
    ChatContentJson(JsonObject([action_items |->
        JsonArray([i \in DOMAIN strs |-> JsonString(strs[i])])]))

\* the answers of chat
ChatResponses ==
    << ChatRaises,
       ChatNoMessage,
       ChatNoContent,
       ChatContentNone,
       ChatContentText,
       ChatContentJson(JsonNull),
       ChatContentJson(JsonNumber),
       ChatContentJson(JsonString(ItemA)),
       ChatContentJson(JsonArray(<<JsonString(ItemA)>>)),
       ChatContentJson(JsonObject([items |-> JsonArray(<<JsonString(ItemA)>>)])),
       ChatContentJson(JsonObject([action_items |-> JsonNull])),
       ChatContentJson(JsonObject([action_items |-> JsonString(ItemA)])),
       ChatContentJson(JsonObject([action_items |->
           JsonArray(<<JsonString(ItemA), JsonNumber>>)])),
       ChatContentJson(JsonObject([action_items |-> JsonArray(<<JsonString(ItemA)>>),
                                   notes |-> JsonNull])),
       ValidAnswer(<<>>),
       ValidAnswer(<<LineBlank>>),
       ValidAnswer(<<LineSpaces>>),
       ValidAnswer(<<ItemPadded>>),
       ValidAnswer(<<ItemA, ItemB>>),
       ValidAnswer(<<ItemB, ItemA>>),
       ValidAnswer(<<ItemA, ItemA>>),
       ValidAnswer(<<ItemA, ItemUpperA>>),
       ValidAnswer(<<ItemLeading, LineSpaces, ItemPadded, LineBlank, ItemB>>),
       ValidAnswer(<<LineBulletCheckbox, LineKeyword>>) >>

LLMInit ==
    /\ InitCalls(<<>>)
    /\ StoreAbsent /\ PromptAbsent /\ ConnAbsent
    /\ \E t \in LLMTexts :
           llm = [pc |-> "call", text |-> t, response |-> ChatRaises,
                  result |-> <<>>]

\* lines 93-105: chat is called and answers
Chat(response) ==
    /\ llm.pc = "call"
    /\ llm' = [llm EXCEPT !.pc = "answered", !.response = response]

\* lines 107-124: the answer is parsed, or the handler returns []
LLMReturn ==
    /\ llm.pc = "answered"
    /\ LET out == extract_action_items_llm(llm.text, llm.response)
       IN  IF out.raised
           THEN llm' = [llm EXCEPT !.pc = "raised"]
           ELSE llm' = [llm EXCEPT !.pc = "returned", !.result = out.value]

LLMNext ==
    \/ \E k \in DOMAIN ChatResponses :
           Chat(ChatResponses[k]) /\ UNCHANGED <<extractVars, storeVars, prompt, conn>>
    \/ LLMReturn /\ UNCHANGED <<extractVars, storeVars, prompt, conn>>

LLMSpec == LLMInit /\ [][LLMNext]_vars

(***************************************************************************)
(* week1/chain_of_thought.py: test_your_prompt runs the model up to        *)
(* NUM_RUNS_TIMES times and compares the final answer of each output with  *)
(* EXPECTED_OUTPUT.                                                        *)
(***************************************************************************)
NUM_RUNS_TIMES == 5

EXPECTED_OUTPUT == <<"A", "n", "s", "w", "e", "r", ":", " ", "4", "3">>

AnswerWord == <<"a", "n", "s", "w", "e", "r">>

AnswerPrefix == <<"A", "n", "s", "w", "e", "r", ":", " ">>

NoMatch == [matched |-> FALSE, group |-> <<>>, end |-> 0]

\* the match of (?mi)^\s*answer\s*:\s*(.+)\s*$ that starts at the line
\* start t[p]: its group and the index of its last character.  \s* runs
\* over line ends; (.+) runs to the end of its line; when only whitespace
\* follows the colon up to the end of t, \s* gives back as little as lets
\* (.+) start; the trailing \s* stops at the end of t or before the last
\* line end of its run
answer_match(t, p) ==
    LET a == run_end(t, p, Whitespace)
        b == run_end(t, a + 7, Whitespace)
        c == b + 1
        w == run_end(t, c + 1, Whitespace)
        shorter == { k \in c..(w - 1) : t[k + 1] # "\n" }
        from == IF w < Len(t) THEN w + 1 ELSE Max(shorter) + 1
        to == run_end(t, from, Range(t) \ {"\n"})
        r == run_end(t, to + 1, Whitespace)
        end == IF r = Len(t) THEN r ELSE Max({ k \in to..r : t[k + 1] = "\n" })
    IN  IF a + 6 > Len(t) THEN NoMatch
        ELSE IF lower(SubSeq(t, a + 1, a + 6)) # AnswerWord THEN NoMatch
        ELSE IF c > Len(t) THEN NoMatch
        ELSE IF t[c] # ":" THEN NoMatch
        ELSE IF w >= Len(t) /\ shorter = {} THEN NoMatch
        ELSE [matched |-> TRUE, group |-> SubSeq(t, from, to), end |-> end]

\* re.findall(r"(?mi)^\s*answer\s*:\s*(.+)\s*$", t), from t[offset] on: the
\* groups of the matches, which do not overlap
RECURSIVE findall_answer_from(_, _)
findall_answer_from(t, offset) ==
    LET starts == { p \in offset..(Len(t) + 1) :
                      /\ (p = 1 \/ t[p - 1] = "\n")
                      /\ answer_match(t, p).matched }
        m == answer_match(t, Min(starts))
    IN  IF starts = {} THEN <<>>
        ELSE <<m.group>> \o findall_answer_from(t, m.end + 1)

\* value.replace(",", "")
replace_commas(value) ==
    LET kept(ch) == ch # ","
    IN  SelectSeq(value, kept)

\* re.search(r"-?\d+(?:\.\d+)?", v): None or the leftmost match
search_number(v) ==
    LET digits == { i \in 1..Len(v) : v[i] \in Digits }
        d == Min(digits)
        start == IF d > 1 /\ v[d - 1] = "-" THEN d - 1 ELSE d
        e == run_end(v, d, Digits)
        f == IF e + 2 <= Len(v) /\ v[e + 1] = "." /\ v[e + 2] \in Digits
             THEN run_end(v, e + 2, Digits)
             ELSE e
    IN  IF digits = {} THEN None ELSE Some(SubSeq(v, start, f))

extract_final_answer(t) ==
    LET matches == findall_answer_from(t, 1)
        value == strip(matches[Len(matches)])
        num_match == search_number(replace_commas(value))
    IN  IF matches # <<>>
        THEN IF num_match # None
             THEN AnswerPrefix \o num_match[1]
             ELSE AnswerPrefix \o value
        ELSE strip(t)

\* line 68: final_answer.strip() == EXPECTED_OUTPUT.strip()
final_answer_matches(output_text) ==
    strip(extract_final_answer(output_text)) = strip(EXPECTED_OUTPUT)

\* a response of chat whose message.content is the text t
ChatOutput(t) == [kind |-> "message", content |-> [kind |-> "text", value |-> t]]

OutputRight ==
    <<"s", "o", " ", "4", "3", "\n", "A", "n", "s", "w", "e", "r", ":", " ", "4", "3">>

OutputLowerCase ==
    <<" ", "a", "n", "s", "w", "e", "r", " ", ":", " ", "=", "4", "3", ".", " ", "\n">>

OutputNextLine ==
    <<"A", "n", "s", "w", "e", "r", ":", "\n", "4", ",", "3">>

OutputWrong ==
    <<"A", "n", "s", "w", "e", "r", ":", " ", "7">>

OutputTwoAnswers ==
    <<"A", "n", "s", "w", "e", "r", ":", " ", "4", "3", "\n", "A", "N", "S", "W", "E", "R",
      ":", " ", "-", "4", "3">>

OutputNoAnswerLine ==
    <<"i", "t", " ", "i", "s", " ", "4", "3">>

OutputDecimal ==
    <<"A", "n", "s", "w", "e", "r", ":", " ", "4", "3", ".", "0">>

OutputBlankAnswer ==
    <<"A", "n", "s", "w", "e", "r", ":", " ">>

\* what chat may do in one run
PromptChatResponses ==
    << ChatRaises, ChatContentNone,
       ChatOutput(OutputRight), ChatOutput(OutputLowerCase), ChatOutput(OutputNextLine),
       ChatOutput(OutputWrong), ChatOutput(OutputTwoAnswers),
       ChatOutput(OutputNoAnswerLine), ChatOutput(OutputDecimal),
       ChatOutput(OutputBlankAnswer) >>

\* idx runs are over; outputs: what chat did in each call so far
PromptInit ==
    /\ InitCalls(<<>>)
    /\ StoreAbsent /\ LLMAbsent /\ ConnAbsent
    /\ prompt = [pc |-> "loop", idx |-> 0, outputs |-> <<>>, value |-> FALSE]

\* RunTest that goes on with the next run after a match
RunTest_without_return(response) ==
    /\ prompt.pc = "loop"
    /\ prompt.idx < NUM_RUNS_TIMES
    /\ prompt' =
           IF response.kind # "message" \/ response.content.kind # "text"
           THEN [prompt EXCEPT !.pc = "raised", !.outputs = Append(@, response)]
           ELSE [prompt EXCEPT !.idx = @ + 1, !.outputs = Append(@, response)]

\* lines 56-73, one iteration of `for idx in range(NUM_RUNS_TIMES)`: chat
\* is called; the call, `response.message.content`, or re.findall on a
\* content that is None raises; a matching final answer returns True
RunTest(response) ==
    /\ prompt.pc = "loop"
    /\ prompt.idx < NUM_RUNS_TIMES
    /\ prompt' =
           IF response.kind # "message" \/ response.content.kind # "text"
           THEN [prompt EXCEPT !.pc = "raised", !.outputs = Append(@, response)]
           ELSE IF final_answer_matches(response.content.value)
           THEN [prompt EXCEPT !.pc = "returned", !.value = TRUE,
                               !.outputs = Append(@, response)]
           ELSE [prompt EXCEPT !.idx = @ + 1, !.outputs = Append(@, response)]

\* line 74: the loop is over, return False
ReturnFalse ==
    /\ prompt.pc = "loop"
    /\ prompt.idx >= NUM_RUNS_TIMES
    /\ prompt' = [prompt EXCEPT !.pc = "returned", !.value = FALSE]

PromptNext ==
    \/ \E k \in DOMAIN PromptChatResponses :
           RunTest(PromptChatResponses[k]) /\ UNCHANGED <<extractVars, storeVars, llm, conn>>
    \/ ReturnFalse /\ UNCHANGED <<extractVars, storeVars, llm, conn>>

\* every call of chat returns or raises, so the function takes its next step
PromptSpec == PromptInit /\ [][PromptNext]_vars /\ WF_vars(PromptNext)

(***************************************************************************)
(* week2/app/db.py: one use of `with get_connection() as connection`,      *)
(* statement by statement.  conn.db is the content of the file, conn.work  *)
(* what the open transaction of the connection holds.                      *)
(***************************************************************************)
\* the stores a use of get_connection may find
ConnStores ==
    { EmptyStore,
      insert_note(EmptyStore, NotePadded, Timestamps[1], FALSE).db,
      insert_action_items(EmptyStore, <<ItemA>>, None, Timestamps[1], 0).db,
      insert_action_items(insert_note(EmptyStore, NotePadded, Timestamps[1], FALSE).db,
                          <<ItemA, ItemB>>, Some(1), Timestamps[2], 0).db }

\* what the block of the `with` statement may do on the store db0: change
\* nothing, insert a note, or set the done flag of every action item, and
\* then complete or raise
BlockOutcomes(db0) ==
    LET inserted == insert_note(db0, LineSpaces, Timestamps[2], FALSE).db
        updated == [db0 EXCEPT !.action_items =
                       [i \in DOMAIN @ |-> [@[i] EXCEPT !.done = 1]]]
        works == {db0, inserted, updated}
    IN  { Completes(w, None) : w \in works }
            \cup { Raises(w, exc) :
                     w \in works,
                     exc \in {"sqlite3.Error", "ActionItemNotFoundError", "ValueError"} }

ConnInit ==
    /\ InitCalls(<<>>)
    /\ StoreAbsent /\ LLMAbsent /\ PromptAbsent
    /\ \E db0 \in ConnStores :
           conn = [pc |-> "enter", db0 |-> db0, db |-> db0, work |-> db0,
                   connection |-> "none", ran |-> FALSE,
                   block |-> Completes(db0, None), committed |-> FALSE,
                   rolled_back |-> FALSE, exc |-> NoError]

\* lines 22-30: mkdir, sqlite3.connect, PRAGMA; failure names the statement
\* that raises, or is "none"
Connect(failure) ==
    /\ conn.pc = "enter"
    /\ conn' =
           IF failure = "mkdir"
           THEN [conn EXCEPT !.pc = "except", !.exc = "OSError"]
           ELSE IF failure = "connect"
           THEN [conn EXCEPT !.pc = "except", !.exc = "sqlite3.Error"]
           ELSE IF failure = "pragma"
           THEN [conn EXCEPT !.pc = "except", !.exc = "sqlite3.Error",
                             !.connection = "open"]
           ELSE [conn EXCEPT !.pc = "block", !.connection = "open"]

\* line 32: `yield connection`, the block of the `with` statement runs
Block(outcome) ==
    /\ conn.pc = "block"
    /\ conn' = [conn EXCEPT !.ran = TRUE, !.block = outcome,
                            !.work = outcome.db,
                            !.exc = outcome.raised,
                            !.pc = IF outcome.raised = NoError
                                   THEN "commit" ELSE "except"]

\* line 33: connection.commit()
Commit(fails) ==
    /\ conn.pc = "commit"
    /\ conn' =
           IF fails
           THEN [conn EXCEPT !.pc = "except", !.exc = "sqlite3.Error"]
           ELSE [conn EXCEPT !.pc = "finally", !.db = conn.work,
                             !.committed = TRUE]

\* lines 34-41: `except sqlite3.Error` and `except Exception`: roll back
\* if there is a connection, raise DatabaseError
Except ==
    /\ conn.pc = "except"
    /\ isinstance(conn.exc, "sqlite3.Error") \/ isinstance(conn.exc, "Exception")
    /\ conn' = [conn EXCEPT !.pc = "finally",
                            !.exc = "DatabaseError",
                            !.rolled_back = conn.connection = "open",
                            !.work = conn.db]

\* lines 42-44: close the connection if there is one
Finally ==
    /\ conn.pc = "finally"
    /\ conn' = [conn EXCEPT !.pc = "done",
                            !.connection = IF @ = "open" THEN "closed" ELSE @,
                            !.work = conn.db]

ConnNext ==
    \/ \E failure \in {"none", "mkdir", "connect", "pragma"} :
           Connect(failure) /\ UNCHANGED <<extractVars, storeVars, llm, prompt>>
    \/ \E outcome \in BlockOutcomes(conn.db) :
           Block(outcome) /\ UNCHANGED <<extractVars, storeVars, llm, prompt>>
    \/ \E fails \in BOOLEAN :
           Commit(fails) /\ UNCHANGED <<extractVars, storeVars, llm, prompt>>
    \/ Except /\ UNCHANGED <<extractVars, storeVars, llm, prompt>>
    \/ Finally /\ UNCHANGED <<extractVars, storeVars, llm, prompt>>

\* every statement of the context manager returns or raises
ConnSpec == ConnInit /\ [][ConnNext]_vars /\ WF_vars(ConnNext)

(***************************************************************************)
(* week2/app/db.py called directly: any sequence of its operations, with   *)
(* any arguments.  The request handlers change the store through these     *)
(* operations only.                                                        *)
(***************************************************************************)
\* the lists of items given to insert_action_items
DbItemLists == {<<>>, <<ItemA>>, <<ItemB, ItemA>>}

DbInit ==
    /\ InitCalls(<<>>)
    /\ db = EmptyStore
    /\ request = <<>>
    /\ served = NothingServed
    /\ LLMAbsent /\ PromptAbsent /\ ConnAbsent

\* the operation called last: its arguments, whether a statement of it
\* failed, the store it found and the store it left, and its outcome
Called(op, args, fault, out) ==
    [op |-> op, args |-> args, fault |-> fault, before |-> db, after |-> out.db,
     raised |-> out.raised, value |-> out.value]

DbInsertNote(content, t, fault) ==
    /\ Len(db.notes) < MaxNotes
    /\ LET out == insert_note(db, content, t, fault)
       IN  /\ db' = out.db
           /\ served' = Called("insert_note", <<content>>, fault, out)
    /\ UNCHANGED request

DbGetNote(note_id) ==
    /\ LET out == get_note(db, note_id, FALSE)
       IN  /\ db' = out.db
           /\ served' = Called("get_note", <<note_id>>, FALSE, out)
    /\ UNCHANGED request

DbListNotes ==
    /\ LET out == list_notes(db, FALSE)
       IN  /\ db' = out.db
           /\ served' = Called("list_notes", <<>>, FALSE, out)
    /\ UNCHANGED request

\* fault: 0, or the number of the INSERT that fails
DbInsertActionItems(items, note_id, t, fault) ==
    /\ Len(db.action_items) + Len(items) <= MaxItems + 1
    /\ LET out == insert_action_items(db, items, note_id, t, fault)
       IN  /\ db' = out.db
           /\ served' = Called("insert_action_items", <<items, note_id>>,
                               fault \in 1..Len(items), out)
    /\ UNCHANGED request

DbGetActionItem(action_item_id) ==
    /\ LET out == get_action_item(db, action_item_id, FALSE)
       IN  /\ db' = out.db
           /\ served' = Called("get_action_item", <<action_item_id>>, FALSE, out)
    /\ UNCHANGED request

DbListActionItems(note_id) ==
    /\ LET out == list_action_items(db, note_id, FALSE)
       IN  /\ db' = out.db
           /\ served' = Called("list_action_items", <<note_id>>, FALSE, out)
    /\ UNCHANGED request

DbMarkActionItemDone(action_item_id, done, fault) ==
    /\ LET out == mark_action_item_done(db, action_item_id, done, fault)
       IN  /\ db' = out.db
           /\ served' = Called("mark_action_item_done", <<action_item_id, done>>,
                               fault, out)
    /\ UNCHANGED request

\* the earliest that datetime('now') may give in the store db0: the time
\* of the latest row
EarliestNow(db0) ==
    Timestamps[Min({k \in DOMAIN Timestamps : Timestamps[k] \in Clock(db0)})]

\* the ids of notes that a caller may name: those stored and one more
NoteIds == 1..(Len(db.notes) + 1)

ActionItemIds == 1..(Len(db.action_items) + 1)

DbNext ==
    \/ \E content \in {NotePadded}, t \in Clock(db), fault \in BOOLEAN :
           DbInsertNote(content, t, fault)
               /\ UNCHANGED <<extractVars, llm, prompt, conn>>
    \/ \E note_id \in NoteIds :
           DbGetNote(note_id) /\ UNCHANGED <<extractVars, llm, prompt, conn>>
    \/ DbListNotes /\ UNCHANGED <<extractVars, llm, prompt, conn>>
    \/ \E items \in DbItemLists, note_id \in {None} \cup {Some(i) : i \in NoteIds},
          fault \in 0..2 :
           /\ fault <= Len(items)
           /\ DbInsertActionItems(items, note_id, EarliestNow(db), fault)
               /\ UNCHANGED <<extractVars, llm, prompt, conn>>
    \/ \E action_item_id \in ActionItemIds :
           DbGetActionItem(action_item_id)
               /\ UNCHANGED <<extractVars, llm, prompt, conn>>
    \/ \E note_id \in {None} \cup {Some(i) : i \in NoteIds} :
           DbListActionItems(note_id)
               /\ UNCHANGED <<extractVars, llm, prompt, conn>>
    \/ \E action_item_id \in ActionItemIds, done \in BOOLEAN :
           DbMarkActionItemDone(action_item_id, done, FALSE)
               /\ UNCHANGED <<extractVars, llm, prompt, conn>>

DbSpec == DbInit /\ [][DbNext]_vars

(***************************************************************************)
(* Properties                                                              *)
(***************************************************************************)
Scenario1Items ==
    <<
      <<"S", "e", "t", " ", "u", "p", " ", "t", "h", "e", " ", "d", "a", "t", "a", "b", "a",
        "s", "e", " ", "s", "c", "h", "e", "m", "a">>,
      <<"I", "m", "p", "l", "e", "m", "e", "n", "t", " ", "t", "h", "e", " ", "A", "P", "I",
        " ", "e", "x", "t", "r", "a", "c", "t", " ", "e", "n", "d", "p", "o", "i", "n", "t">>,
      <<"W", "r", "i", "t", "e", " ", "u", "n", "i", "t", " ", "t", "e", "s", "t", "s">>
    >>

Scenario2Items ==
    <<
      <<"F", "i", "x", " ", "t", "h", "e", " ", "b", "u", "g">>,
      <<"U", "p", "d", "a", "t", "e", " ", "a", "u", "t", "h">>,
      <<"T", "e", "s", "t", " ", "f", "e", "a", "t", "u", "r", "e">>,
      <<"R", "e", "v", "i", "e", "w", " ", "P", "R", "s">>
    >>

Scenario3Items ==
    <<
      <<"I", "m", "p", "l", "e", "m", "e", "n", "t", " ", "t", "h", "e", " ", "n", "e", "w",
        " ", "f", "e", "a", "t", "u", "r", "e", " ", "b", "y", " ", "n", "e", "x", "t", " ",
        "w", "e", "e", "k", ".">>,
      <<"C", "r", "e", "a", "t", "e", " ", "a", " ", "u", "s", "e", "r", " ", "d", "a", "s",
        "h", "b", "o", "a", "r", "d", ".">>
    >>

Scenario4Items ==
    <<
      <<"S", "e", "t", " ", "u", "p", " ", "d", "a", "t", "a", "b", "a", "s", "e">>
    >>


\* the trimmed lines of t, in order
stripped_lines(t) ==
    LET ls == splitlines(t) IN [i \in 1..Len(ls) |-> strip(ls[i])]

\* the trimmed lines of t that the line loop takes for action lines
action_lines(t) == SelectSeq(stripped_lines(t), is_action_line)

\* the sentences the fallback reads
sentences_of(t) == split_sentences(strip(t))

AfterFallback == {"dedup", "return", "returned"}

\* C1: the list returned by extract_action_items holds no two items that
\* are equal after lower-casing.
C1_NoCaseInsensitiveDuplicates ==
    \A c \in Calls :
        pc[c] = "returned" =>
            \A i, j \in 1..Len(result[c]) :
                i # j => lower(result[c][i]) # lower(result[c][j])

\* a call returned two or more items after dropping a duplicate that was
\* spelled differently
C1_Witness ==
    \E c \in Calls :
        /\ pc[c] = "returned"
        /\ Len(result[c]) >= 2
        /\ \E i, j \in 1..Len(extracted[c]) :
               /\ i < j
               /\ extracted[c][i] # extracted[c][j]
               /\ lower(extracted[c][i]) = lower(extracted[c][j])

\* the indices of xs that are the first occurrence of their item, compared
\* lower-cased
first_occurrences(xs) ==
    { i \in 1..Len(xs) : \A j \in 1..(i - 1) : lower(xs[j]) # lower(xs[i]) }

\* C2: the list returned is exactly the items of the active tier at their
\* first case-insensitive occurrence, in their order and in the spelling of
\* that occurrence; scenario 4 returns ["Set up database"].
C2_FirstOccurrencesInOrder ==
    \A c \in Calls :
        pc[c] = "returned" =>
            LET xs == extracted[c]
                keep == first_occurrences(xs)
            IN  /\ Len(result[c]) = Cardinality(keep)
                /\ \A i \in keep :
                       result[c][Cardinality({j \in keep : j <= i})] = xs[i]
                /\ text[c] = Scenario4 => result[c] = Scenario4Items

\* a call returned after dropping a later duplicate, spelled differently, of
\* an item that is followed by another item
C2_Witness ==
    \E c \in Calls :
        /\ pc[c] = "returned"
        /\ \E i, j, k \in 1..Len(extracted[c]) :
               /\ i < j /\ j < k
               /\ lower(extracted[c][i]) # lower(extracted[c][j])
               /\ lower(extracted[c][i]) = lower(extracted[c][k])
               /\ extracted[c][i] # extracted[c][k]
               /\ result[c] = <<extracted[c][i], extracted[c][j]>>

\* C3: the sentence fallback runs if and only if the line loop produced no
\* item; once a line is an action line the fallback adds nothing, whatever
\* imperative sentences the text holds.
C3_FallbackIffNoLineItems ==
    \A c \in Calls :
        pc[c] \in AfterFallback \cup {"raised"} =>
            /\ fallback_ran[c] <=> line_items[c] = <<>>
            /\ line_items[c] # <<>> => extracted[c] = line_items[c]
            /\ pc[c] = "dedup" =>
                   LET n == Len(action_lines(text[c]))
                   IN  n > 0 => ~fallback_ran[c] /\ Len(extracted[c]) = n

\* a call whose only action line gave an empty item returned without the
\* imperative sentences of its text
C3_Witness ==
    \E c \in Calls :
        /\ pc[c] = "returned"
        /\ ~fallback_ran[c]
        /\ \A i \in 1..Len(line_items[c]) : line_items[c][i] = <<>>
        /\ sentence_loop(sentences_of(text[c]), <<>>).value # <<>>

\* tok is a bullet or numbering marker: one of - * <U+2022>, or digits and "."
IsBulletMarker(tok) ==
    \/ Len(tok) = 1 /\ tok[1] \in BulletChars
    \/ /\ Len(tok) >= 2
       /\ tok[Len(tok)] = "."
       /\ \A n \in 1..(Len(tok) - 1) : tok[n] \in Digits

\* the trimmed line l starts with a bullet or numbering marker and whitespace
HasBulletPrefix(l) ==
    \E m \in 1..(Len(l) - 1) :
        IsBulletMarker(SubSeq(l, 1, m)) /\ l[m + 1] \in Whitespace

\* l[i+1..j] is all whitespace and ends where the whitespace ends
IsWhitespaceRun(l, i, j) ==
    /\ \A n \in (i + 1)..j : l[n] \in Whitespace
    /\ j = Len(l) \/ l[j + 1] \notin Whitespace

\* l[1..i] is the bullet prefix of l and its whitespace; i = 0 without one
IsBulletPrefixEnd(l, i) ==
    IF HasBulletPrefix(l)
    THEN \E m \in 1..(i - 1) :
             IsBulletMarker(SubSeq(l, 1, m)) /\ IsWhitespaceRun(l, m, i)
    ELSE i = 0

\* l[i+1..j] is a leading `box` of the rest of l and the whitespace after
\* it; j = i when the rest does not start with box
IsBoxEnd(l, i, j, box) ==
    IF i + Len(box) <= Len(l) /\ SubSeq(l, i + 1, i + Len(box)) = box
    THEN j >= i + Len(box) /\ IsWhitespaceRun(l, i + Len(box), j)
    ELSE j = i

\* item is what is left of the trimmed line l once its bullet prefix, then
\* a leading "[ ]", then a leading "[todo]" are taken off, each with the
\* whitespace after it
IsStrippedLine(l, item) ==
    \E i \in 0..Len(l) :
        /\ IsBulletPrefixEnd(l, i)
        /\ \E j \in i..Len(l) :
               /\ IsBoxEnd(l, i, j, CheckboxEmpty)
               /\ \E k \in j..Len(l) :
                      /\ IsBoxEnd(l, j, k, CheckboxTodo)
                      /\ item = SubSeq(l, k + 1, Len(l))

\* the trimmed line l starts with keyword, compared lower-cased
StartsWithKeyword(l, keyword) ==
    /\ Len(keyword) <= Len(l)
    /\ \A n \in 1..Len(keyword) : lower_char(l[n]) = keyword[n]

\* C4: the item of a line that starts with "todo:", "action:" or "next:" is
\* the line without that keyword, trimmed; scenario 2 returns
\* ["Fix the bug", "Update auth", "Test feature", "Review PRs"].
C4_KeywordStripped ==
    \A c \in Calls :
        pc[c] = "returned" =>
            /\ text[c] = Scenario2 => result[c] = Scenario2Items
            /\ LET ls == action_lines(text[c])
               IN  \A i \in 1..Len(ls) :
                       \A keyword \in KEYWORD_PREFIXES :
                           StartsWithKeyword(ls[i], keyword) =>
                               line_items[c][i] =
                                   strip(SubSeq(ls[i], Len(keyword) + 1, Len(ls[i])))

\* C5: every action line gives one item, the line with its bullet prefix,
\* then a leading "[ ]", then a leading "[todo]" taken off and trimmed after
\* each; "- [ ] foo" gives "foo"; other lines give nothing.
C5_StripsInFixedOrder ==
    \A c \in Calls :
        pc[c] = "fallback" =>
            LET ls == action_lines(text[c])
            IN  /\ Len(line_items[c]) = Len(ls)
                /\ \A i \in 1..Len(ls) : IsStrippedLine(ls[i], line_items[c][i])
                /\ text[c] = LineBulletCheckbox =>
                       line_items[c] = <<<<"f", "o", "o">>>>

\* the line loop took both a bullet prefix and a checkbox off one line and
\* discarded another, non-blank line
C5_Witness ==
    \E c \in Calls :
        /\ pc[c] = "fallback"
        /\ Len(action_lines(text[c])) = 1
        /\ HasBulletPrefix(action_lines(text[c])[1])
        /\ contains(action_lines(text[c])[1], CheckboxEmpty)
        /\ line_items[c] = <<<<"f", "o", "o">>>>
        /\ \E i \in 1..Len(stripped_lines(text[c])) :
               /\ stripped_lines(text[c])[i] # <<>>
               /\ ~is_action_line(stripped_lines(text[c])[i])

\* the trimmed line l holds box somewhere, compared lower-cased
HoldsBox(l, box) ==
    \E i \in 0..(Len(l) - Len(box)) :
        \A n \in 1..Len(box) : lower_char(l[i + n]) = box[n]

\* the classification of a non-blank trimmed line as the claim states it
IsActionLineAsStated(l) ==
    \/ HasBulletPrefix(l)
    \/ \E keyword \in KEYWORD_PREFIXES : StartsWithKeyword(l, keyword)
    \/ HoldsBox(l, CheckboxEmpty)
    \/ HoldsBox(l, CheckboxTodo)

\* C6: a non-blank trimmed line is an action line if and only if it starts
\* with a bullet or numbering prefix, or starts case-insensitively with a
\* keyword, or holds "[ ]" or "[todo]" case-insensitively; the line loop
\* produces one item per such line and none for the others.
C6_ClassificationAsStated ==
    \A c \in Calls :
        pc[c] = "fallback" =>
            LET ls == stripped_lines(text[c])
            IN  /\ \A i \in 1..Len(ls) :
                       ls[i] # <<>> =>
                           (is_action_line(ls[i]) <=> IsActionLineAsStated(ls[i]))
                /\ Len(line_items[c]) =
                       Cardinality({ i \in 1..Len(ls) :
                                       ls[i] # <<>> /\ IsActionLineAsStated(ls[i]) })

\* the line loop took a line for its upper-case keyword, another for an
\* upper-case checkbox inside it, and left a third, non-blank line out
C6_Witness ==
    \E c \in Calls :
        /\ pc[c] = "fallback"
        /\ Len(line_items[c]) = 2
        /\ LET ls == stripped_lines(text[c])
           IN  \E i, j, k \in 1..Len(ls) :
                   /\ StartsWithKeyword(ls[i], <<"t", "o", "d", "o", ":">>)
                   /\ ~startswith(ls[i], <<"t", "o", "d", "o", ":">>)
                   /\ HoldsBox(ls[j], CheckboxTodo)
                   /\ ~contains(ls[j], CheckboxTodo)
                   /\ ~startswith(lower(ls[j]), CheckboxTodo)
                   /\ ls[k] # <<>>
                   /\ ~IsActionLineAsStated(ls[k])

\* t[a..b] is whitespace that follows ".", "!" or "?" and ends where the
\* whitespace ends: a place where the trimmed text t is split
IsSentenceBreak(t, a, b) ==
    /\ 1 < a /\ a <= b /\ b <= Len(t)
    /\ t[a - 1] \in SentenceEnd
    /\ \A n \in a..b : t[n] \in Whitespace
    /\ b = Len(t) \/ t[b + 1] \notin Whitespace

\* where the sentences of t start: at its first character and after a break
SentenceStarts(t) ==
    {1} \cup { b + 1 : b \in { b \in 1..Len(t) :
                                 \E a \in 2..b : IsSentenceBreak(t, a, b) } }

\* the last character of the sentence that starts at t[p]
SentenceEndFrom(t, p) ==
    LET breaks == { a \in (p + 1)..Len(t) :
                      \E b \in a..Len(t) : IsSentenceBreak(t, a, b) }
    IN  IF breaks = {} THEN Len(t)
        ELSE (CHOOSE a \in breaks : \A a2 \in breaks : a <= a2) - 1

\* the sentences of the trimmed text t as stated, in order
SentencesAsStated(t) ==
    LET starts == SentenceStarts(t)
        nth(k) == CHOOSE p \in starts : Cardinality({q \in starts : q <= p}) = k
    IN  [k \in 1..Cardinality(starts) |-> SubSeq(t, nth(k), SentenceEndFrom(t, nth(k)))]

\* the first word of s (its first run of letters and apostrophes),
\* lower-cased, is an imperative starter
StartsImperative(s) ==
    \E i \in 1..Len(s) :
        /\ s[i] \in WordChars
        /\ \A n \in 1..(i - 1) : s[n] \notin WordChars
        /\ \E j \in i..Len(s) :
               /\ \A n \in i..j : s[n] \in WordChars
               /\ j = Len(s) \/ s[j + 1] \notin WordChars
               /\ lower(SubSeq(s, i, j)) \in imperative_starters

IsKeptSentence(s) == s # <<>> /\ StartsImperative(s)

\* C7: when the fallback runs, the items before deduplication are exactly
\* the non-blank sentences of the trimmed text, split at ".", "!" or "?"
\* followed by whitespace, whose first word lower-cased is an imperative
\* starter, in sentence order; scenario 3 returns its two imperative
\* sentences.
C7_FallbackItemsAsStated ==
    \A c \in Calls :
        pc[c] = "dedup" /\ fallback_ran[c] =>
            /\ extracted[c] = SelectSeq(SentencesAsStated(strip(text[c])), IsKeptSentence)
            /\ \A i \in 1..Len(extracted[c]) : extracted[c][i] = strip(extracted[c][i])
            /\ text[c] = Scenario3 => extracted[c] = Scenario3Items

\* the fallback kept a capitalised and a lower-case imperative sentence and
\* dropped a sentence with another first word and one without a word
C7_Witness ==
    \E c \in Calls :
        /\ pc[c] = "dedup" /\ fallback_ran[c]
        /\ Len(extracted[c]) >= 2
        /\ \E i, j \in 1..Len(extracted[c]) :
               /\ lower(extracted[c][i]) # extracted[c][i]
               /\ lower(extracted[c][j]) = extracted[c][j]
        /\ \E i, j \in 1..Len(sentences_of(text[c])) :
               /\ findall_words(sentences_of(text[c])[i]) = <<>>
               /\ sentences_of(text[c])[i] # <<>>
               /\ findall_words(sentences_of(text[c])[j]) # <<>>
               /\ ~StartsImperative(sentences_of(text[c])[j])

IsBlankText(t) == \A i \in 1..Len(t) : t[i] \in Whitespace

\* C8: for an empty or whitespace-only text neither the line loop nor the
\* fallback produces an item, and the empty list is returned.
C8_BlankTextGivesNothing ==
    \A c \in Calls :
        IsBlankText(text[c]) =>
            /\ pc[c] # "raised"
            /\ extracted[c] = <<>> /\ line_items[c] = <<>> /\ unique[c] = <<>>
            /\ pc[c] \in AfterFallback => fallback_ran[c]
            /\ pc[c] = "returned" => result[c] = <<>>

\* a call on blank lines of spaces and tabs returned
C8_Witness ==
    \E c \in Calls :
        /\ pc[c] = "returned"
        /\ IsBlankText(text[c])
        /\ Len(splitlines(text[c])) >= 2
        /\ \E i \in 1..Len(text[c]) : text[c][i] \in {" ", "\t"}
        /\ result[c] = <<>>

\* how far an invocation is: it ends at 4
Progress(p) ==
    CASE p = "lines" -> 0
      [] p = "fallback" -> 1
      [] p = "dedup" -> 2
      [] p = "return" -> 3
      [] p \in {"returned", "raised"} -> 4

\* invocation c is where one of its steps starts: the steps assign values
\* that are always defined, so a step can be taken where its condition holds
CanStep(c) ==
    \/ pc[c] = "lines"
    \/ pc[c] = "fallback" /\ fallback_needed(extracted[c])
    \/ pc[c] = "fallback" /\ ~fallback_needed(extracted[c])
    \/ pc[c] = "dedup"
    \/ pc[c] = "return"

\* no invocation has raised, and one that has not returned can take a step
NeverRaisedNorStuck ==
    \A c \in Calls :
        /\ pc[c] # "raised"
        /\ pc[c] = "returned" \/ CanStep(c)

\* no step takes an invocation back, and every step takes one further
StepAdvances ==
    /\ \A c \in Calls : Progress(pc'[c]) >= Progress(pc[c])
    /\ \E c \in Calls : Progress(pc'[c]) > Progress(pc[c])

\* C9: extract_action_items is total: whatever its text, an invocation
\* never raises and never stops before it has returned its list, which it
\* does after at most four steps.
C9_AlwaysReturns == []NeverRaisedNorStuck /\ [][StepAdvances]_vars

\* a call returned on a text of one line whose last sentence is not
\* terminated and one of whose sentences holds no word
C9_Witness ==
    \E c \in Calls :
        /\ pc[c] = "returned"
        /\ fallback_ran[c]
        /\ Len(splitlines(text[c])) = 1
        /\ text[c][Len(text[c])] \notin SentenceEnd
        /\ \E i \in 1..Len(sentences_of(text[c])) :
               /\ sentences_of(text[c])[i] # <<>>
               /\ findall_words(sentences_of(text[c])[i]) = <<>>

\* what invocation c holds
locals(c) ==
    <<text[c], pc[c], extracted[c], line_items[c], fallback_ran[c], seen[c],
      unique[c], result[c]>>

\* invocations of the same text that have returned have returned the same
\* list
SameTextSameResult ==
    \A c, d \in Calls :
        text[c] = text[d] /\ pc[c] = "returned" /\ pc[d] = "returned" =>
            result[c] = result[d]

\* a step of invocation c leaves the text of every invocation, and all that
\* another invocation holds, as it is
StepIsLocal ==
    /\ text' = text
    /\ \A c \in Calls :
           pc'[c] # pc[c] => \A d \in Calls \ {c} : locals(d)' = locals(d)

C11_AbsentIdIsNotFound ==
    served.op = "mark_done" /\ ~served.fault
        /\ rows_with_id(served.before.action_items, served.args[1]) = <<>>
    => /\ mark_action_item_done(served.before, served.args[1], served.args[2],
                                FALSE).raised = "ActionItemNotFoundError"
       /\ served.status = 404
       /\ served.after = served.before

\* the JSON value v is an object with a member "action_items" that is a list
HasActionItemsList(v) ==
    /\ v.type = "object"
    /\ "action_items" \in DOMAIN v.members
    /\ v.members.action_items.type = "array"

\* a failure case of the model call: chat raised, the response has no
\* message or no content, the content is not JSON, or the JSON lacks the
\* "action_items" list
IsFailedAnswer(r) ==
    \/ r.kind = "raises"
    \/ r.kind \in {"no_message", "no_content"}
    \/ r.content.kind # "json"
    \/ ~HasActionItemsList(r.content.value)

\* C12: extract_action_items_llm never raises, and in every failure case of
\* the model call it returns the empty list.
C12_FailureGivesEmptyList ==
    /\ llm.pc # "raised"
    /\ llm.pc = "returned" /\ IsFailedAnswer(llm.response) => llm.result = <<>>

\* the call returned after chat answered with JSON that is an object without
\* "action_items", for a text that is an action line of the heuristic
C12_Witness ==
    /\ llm.pc = "returned"
    /\ llm.response.kind = "message"
    /\ llm.response.content.kind = "json"
    /\ llm.response.content.value.type = "object"
    /\ "action_items" \notin DOMAIN llm.response.content.value.members
    /\ is_action_line(llm.text)
    /\ llm.result = <<>>

\* the answer r holds a valid "action_items" list: a list of strings
IsValidAnswer(r) ==
    /\ r.kind = "message"
    /\ r.content.kind = "json"
    /\ HasActionItemsList(r.content.value)
    /\ \A i \in DOMAIN r.content.value.members.action_items.elems :
           r.content.value.members.action_items.elems[i].type = "string"

\* the strings of the list of a valid answer, in order
GivenItems(r) ==
    [i \in DOMAIN r.content.value.members.action_items.elems |->
         r.content.value.members.action_items.elems[i].str]

IsNonBlank(x) == ~IsBlankText(x)

\* y has no leading and no trailing whitespace
IsTrimmed(y) ==
    y = <<>> \/ (y[1] \notin Whitespace /\ y[Len(y)] \notin Whitespace)

\* y is x without its leading and trailing whitespace, and is not empty
IsTrimOf(y, x) ==
    \E i \in 1..Len(x) :
        /\ x[i] \notin Whitespace
        /\ \A n \in 1..(i - 1) : x[n] \in Whitespace
        /\ \E j \in i..Len(x) :
               /\ x[j] \notin Whitespace
               /\ \A n \in (j + 1)..Len(x) : x[n] \in Whitespace
               /\ y = SubSeq(x, i, j)

\* C13: with a valid "action_items" list, extract_action_items_llm returns
\* exactly the items of the list that are non-empty after trimming, each
\* trimmed, in the order of the list; no returned item is empty or has
\* leading or trailing whitespace.
C13_ReturnsTrimmedNonBlankItems ==
    llm.pc = "returned" /\ IsValidAnswer(llm.response) =>
        LET kept == SelectSeq(GivenItems(llm.response), IsNonBlank)
        IN  /\ Len(llm.result) = Len(kept)
            /\ \A k \in DOMAIN kept : IsTrimOf(llm.result[k], kept[k])
            /\ \A k \in DOMAIN llm.result :
                   llm.result[k] # <<>> /\ IsTrimmed(llm.result[k])

\* the call returned three items of a list of five, two of them trimmed
\* and one as given
C13_Witness ==
    /\ llm.pc = "returned"
    /\ IsValidAnswer(llm.response)
    /\ Len(GivenItems(llm.response)) = 5
    /\ Len(llm.result) = 3
    /\ llm.result[1] # GivenItems(llm.response)[1]
    /\ llm.result[3] = GivenItems(llm.response)[5]

(***************************************************************************)
(* C14                                                                     *)
(***************************************************************************)
\* C14: every item extract_action_items returns, whether it comes from the
\* line loop or from the sentence fallback, has no leading and no trailing
\* whitespace.
C14_ItemsAreTrimmed ==
    \A c \in Calls :
        pc[c] = "returned" =>
            \A i \in 1..Len(result[c]) : IsTrimmed(result[c][i])

\* a call returned the item of a line whose checkbox was followed by
\* whitespace, and the item of a keyword line
C14_Witness ==
    \E c \in Calls :
        /\ pc[c] = "returned"
        /\ ~fallback_ran[c]
        /\ Len(result[c]) = 2
        /\ action_lines(text[c]) = <<LineBulletCheckbox, LineKeyword>>
        /\ result[c][1] = <<"f", "o", "o">>

(***************************************************************************)
(* C15                                                                     *)
(***************************************************************************)
\* the extract request got past saving its note
PastSaveNote ==
    \/ request.pc \in {"extract", "insert", "respond"}
    \/ request.pc = "done" /\ request.status = 200

\* the extract request got past storing its items
PastInsert ==
    \/ request.pc = "respond"
    \/ request.pc = "done" /\ request.status = 200

\* the rows that the extract request stored
StoredByRequest(store) ==
    LET by_request(r) == \E i \in DOMAIN request.item_ids : request.item_ids[i] = r.id
    IN  SelectSeq(store.action_items, by_request)

\* note_id is the id of the note the request created, or null without
\* save_note; the rows of the request refer to note_id; the response's
\* note_id is the note_id of every item it lists
NoteIdAssociates ==
    /\ PastSaveNote =>
           IF request.save_note
           THEN /\ request.note_id # None
                /\ LET rows == rows_with_id(db.notes, request.note_id[1])
                   IN  Len(rows) = 1 /\ rows[1].content = request.text
           ELSE request.note_id = None
    /\ PastInsert =>
           /\ Len(request.item_ids) = Len(request.items)
           /\ Len(StoredByRequest(db)) = Len(request.items)
           /\ \A i \in DOMAIN StoredByRequest(db) :
                  /\ StoredByRequest(db)[i].note_id = request.note_id
                  /\ StoredByRequest(db)[i].text = request.items[i]
    /\ request.pc = "done" /\ request.status = 200 =>
           /\ request.body.note_id = request.note_id
           /\ Len(request.body.items) = Len(request.items)
           /\ \A i \in DOMAIN request.body.items :
                  /\ request.body.items[i].note_id = request.body.note_id
                  /\ request.body.items[i].id = request.item_ids[i]

\* a step of the extract request that stores a note is its first step, with
\* save_note, and stores a new note and no item; a step that stores items
\* is a later step and stores them with the note_id of the request, whose
\* note, if any, is stored already; a request without save_note stores no
\* note
NoteBeforeItems ==
    /\ request' # request /\ db'.notes # db.notes =>
           /\ request.pc \in {"idle", "done"}
           /\ request'.pc = "extract" /\ request'.save_note
           /\ db'.action_items = db.action_items
           /\ db'.notes = Append(db.notes, db'.notes[Len(db'.notes)])
           /\ db'.notes[Len(db'.notes)].id = request'.note_id[1]
           /\ rows_with_id(db.notes, request'.note_id[1]) = <<>>
    /\ request' # request /\ ~request'.save_note => db'.notes = db.notes
    /\ db'.action_items # db.action_items /\ Len(db'.action_items) > Len(db.action_items) =>
           /\ request.pc = "insert" /\ request'.pc = "respond"
           /\ db'.notes = db.notes
           /\ request.save_note =>
                  rows_with_id(db.notes, request.note_id[1]) # <<>>
           /\ \A i \in (Len(db.action_items) + 1)..Len(db'.action_items) :
                  db'.action_items[i].note_id = request.note_id
           /\ \A i \in 1..Len(db.action_items) :
                  db'.action_items[i] = db.action_items[i]

\* C15: an extract request with save_note stores its note before any of
\* its items, and every item it stores refers to that new note; without
\* save_note it stores no note and its items refer to no note; the note_id
\* of the response is the note_id of every item the response lists.
C15_ItemsReferToTheRequestsNote == []NoteIdAssociates /\ [][NoteBeforeItems]_vars

\* a request with save_note answered two items that refer to its note,
\* which is not the note stored last
C15_Witness ==
    /\ request.pc = "done" /\ request.status = 200
    /\ request.save_note
    /\ Len(request.body.items) = 2
    /\ Len(db.notes) = 2
    /\ request.body.note_id = Some(db.notes[1].id)
    /\ \A i \in DOMAIN StoredByRequest(db) :
           StoredByRequest(db)[i].note_id = Some(db.notes[1].id)

\* a request without save_note answered an item that refers to no note
\* while a note is stored
C15_WitnessNoNote ==
    /\ request.pc = "done" /\ request.status = 200
    /\ ~request.save_note
    /\ Len(request.body.items) > 0
    /\ Len(db.notes) > 0
    /\ request.body.note_id = None

(***************************************************************************)
(* C16                                                                     *)
(***************************************************************************)
\* GET /notes/{note_id} answers 404 when no stored note has the id, and
\* otherwise 200 with the id, content and created_at of the stored note; it
\* leaves the store as it is
GetAnswersTheStoredNote ==
    served.op = "get_single_note" /\ ~served.fault =>
        LET rows == rows_with_id(served.before.notes, served.args[1])
        IN  /\ served.after = served.before
            /\ Len(rows) <= 1
            /\ IF rows = <<>>
               THEN served.status = 404
               ELSE /\ served.status = 200
                    /\ served.body = [id |-> served.args[1],
                                      content |-> rows[1].content,
                                      created_at |-> rows[1].created_at]

\* a step keeps every stored note as it is, and a note it adds has the
\* validated content of the request that creates it
NotesNeverChange ==
    /\ Len(db'.notes) >= Len(db.notes)
    /\ \A i \in DOMAIN db.notes : db'.notes[i] = db.notes[i]
    /\ Len(db'.notes) > Len(db.notes) =>
           /\ Len(db'.notes) = Len(db.notes) + 1
           /\ LET note == db'.notes[Len(db'.notes)]
              IN  /\ rows_with_id(db.notes, note.id) = <<>>
                  /\ IF served' # served
                     THEN /\ served'.op = "create_note"
                          /\ note.content = strip(served'.args[1])
                     ELSE note.content = request'.text

\* C16: GET /notes/{note_id} answers 404 for an id that no stored note has
\* and the id, content and creation time of the stored note otherwise;
\* stored notes never change, so the content is the one the note was
\* created with.
C16_GetNoteOr404 == []GetAnswersTheStoredNote /\ [][NotesNeverChange]_vars

\* GET of an id that no note has, with notes stored, answered 404
C16_Witness ==
    /\ served.op = "get_single_note"
    /\ served.before.notes # <<>>
    /\ rows_with_id(served.before.notes, served.args[1]) = <<>>
    /\ served.status = 404

\* GET of the first of two stored notes answered its content
C16_WitnessFound ==
    /\ served.op = "get_single_note"
    /\ Len(served.before.notes) = 2
    /\ served.args[1] = 1
    /\ served.status = 200
    /\ served.body.content = <<"h", "i">>

(***************************************************************************)
(* C17                                                                     *)
(***************************************************************************)
\* listed holds the notes of the table, each once, the note inserted last
\* first, with ids descending
IsNewestFirst(listed, table) ==
    /\ Len(listed) = Len(table)
    /\ \A i \in DOMAIN table : listed[i] = table[Len(table) + 1 - i]
    /\ \A i \in 1..(Len(listed) - 1) : listed[i].id > listed[i + 1].id

\* C17: list_notes returns every inserted note exactly once, ordered by id
\* descending, so that a note inserted later comes before a note inserted
\* earlier; GET /notes answers that list and its length.
C17_ListNotesNewestFirst ==
    /\ list_notes(db, FALSE).raised = NoError
    /\ IsNewestFirst(list_notes(db, FALSE).value, db.notes)
    /\ served.op = "list_all_notes" /\ ~served.fault =>
           /\ served.status = 200
           /\ served.after = served.before
           /\ served.body.count = Len(served.before.notes)
           /\ IsNewestFirst(served.body.notes,
                  [i \in DOMAIN served.before.notes |->
                       NoteResponse(served.before.notes[i])])

\* GET /notes listed two notes, one stored by POST /notes and one by an
\* extract request
C17_Witness ==
    /\ served.op = "list_all_notes"
    /\ served.status = 200
    /\ served.body.count = 2
    /\ served.body.notes[1].id = 2 /\ served.body.notes[2].id = 1
    /\ served.body.notes[1].content # served.body.notes[2].content
    /\ request.note_id # None

(***************************************************************************)
(* C18                                                                     *)
(***************************************************************************)
\* C18: mark_action_item_done(id, d) on a stored action item succeeds
\* whatever the done value of the item is, also when it is d already;
\* afterwards the item's done flag is d, and its other columns, every other
\* action item and every note are as before; the handler answers 200 with
\* id and d.
C18_MarkDoneSetsOnlyTheFlag ==
    served.op = "mark_done" /\ ~served.fault
        /\ rows_with_id(served.before.action_items, served.args[1]) # <<>>
    => LET id == served.args[1]
           d == served.args[2]
           old == served.before.action_items
           new == served.after.action_items
       IN  /\ mark_action_item_done(served.before, id, d, FALSE).raised = NoError
           /\ served.status = 200
           /\ served.body = [id |-> id, done |-> d]
           /\ served.after.notes = served.before.notes
           /\ served.after.sqlite_sequence = served.before.sqlite_sequence
           /\ Len(new) = Len(old)
           /\ \A i \in DOMAIN old :
                  IF old[i].id = id
                  THEN /\ new[i].done = (IF d THEN 1 ELSE 0)
                       /\ new[i] = [old[i] EXCEPT !.done = new[i].done]
                  ELSE new[i] = old[i]

\* an item that was done already was marked done, while another item that
\* is not done and a note are stored
C18_Witness ==
    /\ served.op = "mark_done"
    /\ served.status = 200
    /\ served.args[2]
    /\ Len(served.before.action_items) = 2
    /\ served.before.notes # <<>>
    /\ \E i, j \in DOMAIN served.before.action_items :
           /\ served.before.action_items[i].id = served.args[1]
           /\ served.before.action_items[i].done = 1
           /\ served.before.action_items[i].note_id # None
           /\ served.before.action_items[j].done = 0

(***************************************************************************)
(* C19                                                                     *)
(***************************************************************************)
\* the run that got response gave the expected final answer
IsMatchingRun(response) ==
    /\ response.kind = "message"
    /\ response.content.kind = "text"
    /\ final_answer_matches(response.content.value)

MatchingRuns == { i \in DOMAIN prompt.outputs : IsMatchingRun(prompt.outputs[i]) }

PromptEnded == prompt.pc \in {"returned", "raised"}

\* at most NUM_RUNS_TIMES calls; a matching run is the last call and the
\* function has returned True; it returns True only then, and False exactly
\* after NUM_RUNS_TIMES runs without a match
RunsUntilFirstMatch ==
    /\ Len(prompt.outputs) <= NUM_RUNS_TIMES
    /\ MatchingRuns # {} =>
           /\ MatchingRuns = {Len(prompt.outputs)}
           /\ prompt.pc = "returned" /\ prompt.value
    /\ prompt.pc = "returned" /\ prompt.value => MatchingRuns # {}
    /\ prompt.pc = "returned" =>
           (~prompt.value <=>
                /\ Len(prompt.outputs) = NUM_RUNS_TIMES
                /\ prompt.idx = NUM_RUNS_TIMES
                /\ MatchingRuns = {})

\* a step makes at most one call, and none once the function has ended
NoCallAfterTheEnd ==
    /\ Len(prompt'.outputs) <= Len(prompt.outputs) + 1
    /\ PromptEnded => prompt' = prompt

\* C19: test_your_prompt calls the model at most NUM_RUNS_TIMES (5) times,
\* returns True at the first run whose final answer is the expected output
\* and calls no more, returns False if and only if none of the 5 runs
\* matched, and always ends.
C19_AtMostFiveRuns ==
    []RunsUntilFirstMatch /\ [][NoCallAfterTheEnd]_vars /\ <>PromptEnded

\* True was returned at the third run, after two runs that did not match
C19_Witness ==
    /\ prompt.pc = "returned" /\ prompt.value
    /\ Len(prompt.outputs) = 3
    /\ MatchingRuns = {3}

\* False was returned after five runs
C19_WitnessFalse ==
    /\ prompt.pc = "returned" /\ ~prompt.value
    /\ Len(prompt.outputs) = NUM_RUNS_TIMES

(***************************************************************************)
(* C20                                                                     *)
(***************************************************************************)
\* the trimmed line l is "[ ]" followed by a text that, trimmed, starts
\* with a bullet prefix
IsCheckboxBeforeBullet(l) ==
    /\ Len(l) > Len(CheckboxEmpty)
    /\ SubSeq(l, 1, Len(CheckboxEmpty)) = CheckboxEmpty
    /\ HasBulletPrefix(strip(SubSeq(l, Len(CheckboxEmpty) + 1, Len(l))))

\* C20: a line in which the checkbox marker comes before the bullet is an
\* action line whose item is the line without the "[ ]" and with the bullet
\* kept; "[ ] - task" gives "- task".
C20_BulletAfterCheckboxIsKept ==
    \A c \in Calls :
        pc[c] = "returned" =>
            /\ \A i \in DOMAIN stripped_lines(text[c]) :
                   IsCheckboxBeforeBullet(stripped_lines(text[c])[i]) =>
                       is_action_line(stripped_lines(text[c])[i])
            /\ LET ls == action_lines(text[c])
               IN  \A i \in DOMAIN ls :
                       IsCheckboxBeforeBullet(ls[i]) =>
                           /\ line_items[c][i] =
                                  strip(SubSeq(ls[i], Len(CheckboxEmpty) + 1, Len(ls[i])))
                           /\ HasBulletPrefix(line_items[c][i])
                           /\ \E k \in DOMAIN result[c] :
                                  lower(result[c][k]) = lower(line_items[c][i])
            /\ text[c] = LineCheckboxBullet =>
                   result[c] = <<<<"-", " ", "t", "a", "s", "k">>>>

\* a call returned "- task" for the line "[ ] - task" next to the item of a
\* line with the bullet first
C20_Witness ==
    \E c \in Calls :
        /\ pc[c] = "returned"
        /\ action_lines(text[c]) = <<LineBulletCheckbox, LineCheckboxBullet>>
        /\ result[c] = << <<"f", "o", "o">>, <<"-", " ", "t", "a", "s", "k">> >>

(***************************************************************************)
(* C21                                                                     *)
(***************************************************************************)
\* the extract request takes its items from the model
IsLLMRequest == request.endpoint = "extract-llm" \/ request.use_llm

\* the model call of the extract request failed
ModelCallFailed ==
    /\ IsLLMRequest
    /\ request.pc \in {"insert", "respond", "done"}
    /\ request.response.kind # "not_called"
    /\ IsFailedAnswer(request.response)

\* after a failed model call the request has no item, whatever the text,
\* and answers 200 with no item and the method "llm"
FailedCallGivesNoItem ==
    ModelCallFailed =>
        /\ extract_action_items_llm(request.text, request.response).value = <<>>
        /\ request.items = <<>>
        /\ request.item_ids = <<>>
        /\ request.extraction_method = "llm"
        /\ request.pc = "done" =>
               /\ request.status = 200
               /\ request.body.items = <<>>
               /\ request.body.extraction_method = "llm"
               /\ request.body.note_id = request.note_id

\* a step of a request whose model call failed stores no action item
FailedCallStoresNothing ==
    ModelCallFailed /\ request' # request =>
        db'.action_items = db.action_items

\* C21: when the model call fails the LLM path does not fall back to the
\* heuristic: the items are the empty list also for a text with action
\* lines, and the extract request with use_llm, or to /extract-llm, stores
\* no action item and answers 200 with no item and extraction_method "llm".
C21_NoHeuristicFallback ==
    []FailedCallGivesNoItem /\ [][FailedCallStoresNothing]_vars

\* a request with use_llm whose model call raised answered 200 without
\* items for a text from which the heuristic extracts an item
C21_Witness ==
    /\ ModelCallFailed
    /\ request.pc = "done" /\ request.status = 200
    /\ request.endpoint = "extract" /\ request.use_llm
    /\ request.response.kind = "raises"
    /\ extract_action_items(request.text).value # <<>>
    /\ request.body.items = <<>>
    /\ db.action_items = <<>>

(***************************************************************************)
(* C22                                                                     *)
(***************************************************************************)
\* C22: the list extract_action_items_llm returns holds no item twice, also
\* when the model's answer repeats an item.
C22_NoDuplicateItems ==
    llm.pc = "returned" =>
        \A i, j \in DOMAIN llm.result :
            llm.result[i] = llm.result[j] => i = j

(***************************************************************************)
(* C23                                                                     *)
(***************************************************************************)
\* the extract request answered 500 because the insertion of its items
\* failed
InsertionFailed ==
    /\ request.pc = "done" /\ request.status = 500
    /\ request.items # <<>>
    /\ request.item_ids = <<>>

\* the rows of the action_items table that refer to the note of the request
AttachedItems ==
    LET attached(r) == r.note_id = request.note_id
    IN  SelectSeq(db.action_items, attached)

\* after a failed insertion of the items of a request with save_note, the
\* note of the request is stored and no action item refers to it
NoteStaysWithoutItems ==
    InsertionFailed /\ request.save_note =>
        /\ request.note_id # None
        /\ Len(rows_with_id(db.notes, request.note_id[1])) = 1
        /\ rows_with_id(db.notes, request.note_id[1])[1].content = request.text
        /\ AttachedItems = <<>>

\* the note is committed by the first step of the request, on its own; the
\* step in which the insertion of the items fails answers 500 and leaves
\* the store, the note included, as it is
SeparateTransactions ==
    /\ request.pc \in {"idle", "done"} /\ request'.pc = "extract" /\ request'.save_note =>
           /\ db'.notes # db.notes
           /\ db'.action_items = db.action_items
    /\ request.pc = "insert" /\ request'.pc = "done" =>
           /\ request'.status = 500
           /\ db' = db

\* C23: the extract request is not atomic: the note and the action items
\* are inserted in separate committed transactions, so when the insertion
\* of the items fails after save_note the request answers 500 and the note
\* stays stored with no action item attached.
C23_NoteStaysOnInsertFailure ==
    []NoteStaysWithoutItems /\ [][SeparateTransactions]_vars

\* the insertion of two items failed; the note of the request is stored
C23_Witness ==
    /\ InsertionFailed /\ request.save_note
    /\ Len(request.items) = 2
    /\ db.action_items = <<>>
    /\ rows_with_id(db.notes, request.note_id[1]) # <<>>

(***************************************************************************)
(* C24                                                                     *)
(***************************************************************************)
\* an exception was raised inside the block
BlockRaised == conn.ran /\ conn.block.raised # NoError

\* the use of get_connection is over with the connection closed, if one
\* was made; the file changes only by a commit, which follows a block that
\* completed; after an exception in the block the transaction is rolled
\* back, the file is as before, and DatabaseError is what the caller gets;
\* the outcome is that of the operator get_connection
CommitOrRollback ==
    /\ conn.pc = "done" => conn.connection # "open"
    /\ conn.connection = "none" /\ conn.pc # "enter" => ~conn.ran /\ conn.db = conn.db0
    /\ conn.committed => conn.ran /\ conn.block.raised = NoError /\ conn.db = conn.block.db
    /\ conn.db # conn.db0 => conn.committed
    /\ BlockRaised /\ conn.pc \in {"finally", "done"} =>
           /\ conn.rolled_back
           /\ ~conn.committed
           /\ conn.db = conn.db0
           /\ conn.exc = "DatabaseError"
           /\ conn.exc # conn.block.raised
    /\ conn.pc = "done" /\ conn.ran /\ (conn.committed \/ BlockRaised) =>
           [db |-> conn.db, raised |-> conn.exc,
            value |-> IF conn.exc = NoError THEN conn.block.value ELSE None]
               = get_connection(conn.db0, conn.block)

\* a closed connection stays closed, and the file changes in the commit only
ClosedStaysClosed ==
    /\ conn.connection = "closed" => conn'.connection = "closed"
    /\ conn'.db # conn.db => conn.pc = "commit" /\ conn'.committed

StoresAll(db0, items, out) ==
    /\ out.raised = NoError
    /\ Len(out.value) = Len(items)
    /\ Len(out.db.action_items) = Len(db0.action_items) + Len(items)
    /\ \A i \in DOMAIN db0.action_items : out.db.action_items[i] = db0.action_items[i]
    /\ \A i \in DOMAIN items :
           /\ out.db.action_items[Len(db0.action_items) + i].id = out.value[i]
           /\ out.db.action_items[Len(db0.action_items) + i].text = items[i]
    /\ out.db.notes = db0.notes

\* whichever INSERT of the call the request is about to make fails, or
\* none, the call stores every item or none
AllOrNothing ==
    request.pc = "insert" =>
        \A t \in Clock(db), fault \in 0..Len(request.items) :
            LET out == insert_action_items(db, request.items, request.note_id, t, fault)
            IN  /\ request.items = <<>> => out = Completes(db, <<>>)
                /\ request.items # <<>> /\ fault = 0 => StoresAll(db, request.items, out)
                /\ fault # 0 => out.raised = "DatabaseError" /\ out.db = db
                /\ out.raised # NoError => out.db = db

\* the step of the request that calls insert_action_items stores all its
\* items and goes on, or stores none and answers 500
InsertStepAllOrNothing ==
    request.pc = "insert" /\ request' # request =>
        \/ /\ request'.pc = "respond"
           /\ StoresAll(db, request.items,
                        [raised |-> NoError, value |-> request'.item_ids, db |-> db'])
           /\ request.items = <<>> => db' = db
        \/ /\ request'.pc = "done" /\ request'.status = 500
           /\ request.items # <<>>
           /\ db' = db

\* C25: insert_action_items stores every item of a non-empty list and
\* returns one id per item in item order, or, when an INSERT fails
\* part-way, stores no item of the call; for an empty list it returns []
\* and leaves the store alone.
C25_InsertAllOrNothing == []AllOrNothing /\ [][InsertStepAllOrNothing]_vars

\* the call with two items failed and none of them is stored, as when its
\* second INSERT fails
C25_Witness ==
    /\ InsertionFailed
    /\ Len(request.items) = 2
    /\ db.notes # <<>>
    /\ db.action_items = <<>>
    /\ db.sqlite_sequence.action_items = 0
    /\ \E t \in Clock(db) :
           /\ insert_action_items(db, request.items, request.note_id, t, 2).raised
                  = "DatabaseError"
           /\ insert_action_items(db, request.items, request.note_id, t, 2).db = db

(***************************************************************************)
(* C26                                                                     *)
(***************************************************************************)
\* the note reference ref is null or the id of a note of the store
RefersToStoredNote(store, ref) ==
    ref = None \/ \E i \in DOMAIN store.notes : store.notes[i].id = ref[1]

\* insert_action_items was called with the id of no stored note
CalledWithUnknownNote ==
    /\ served.op = "insert_action_items"
    /\ ~RefersToStoredNote(served.before, served.args[2])

ReferencesAreStored ==
    /\ \A i \in DOMAIN db.action_items :
           RefersToStoredNote(db, db.action_items[i].note_id)
    /\ CalledWithUnknownNote =>
           /\ served.after = served.before
           /\ IF served.args[1] = <<>>
              THEN served.raised = NoError /\ served.value = <<>>
              ELSE served.raised = "DatabaseError"

\* no step removes a note
NotesStay ==
    /\ Len(db'.notes) >= Len(db.notes)
    /\ \A i \in DOMAIN db.notes : db'.notes[i].id = db.notes[i].id

\* C26, as first stated: insert_action_items with a note id that no note
\* has stores nothing and fails with DatabaseError.
C26_UnknownNoteAlwaysFails ==
    CalledWithUnknownNote =>
        served.after = served.before /\ served.raised = "DatabaseError"

\* C26: in every reachable state each action item's note reference is null
\* or the id of a stored note: insert_action_items with a non-empty list
\* and a note id that no note has stores nothing and fails with
\* DatabaseError (with an empty list it returns [] and stores nothing), and
\* no operation removes a note.
C26_NoteReferencesAreStored == []ReferencesAreStored /\ [][NotesStay]_vars

\* an item for the id of no note was refused on a store that holds a note
\* and an item that refers to it
C26_Witness ==
    /\ CalledWithUnknownNote
    /\ served.args[1] # <<>>
    /\ served.raised = "DatabaseError"
    /\ served.before.notes # <<>>
    /\ \E i \in DOMAIN db.action_items : db.action_items[i].note_id # None

StrictlyIncreasingIds(rows) ==
    \A i, j \in DOMAIN rows : i < j => rows[i].id < rows[j].id

\* the rows of a table before a step are all there after it, in their places
KeepsRows(old, new) ==
    /\ Len(new) >= Len(old)
    /\ \A i \in DOMAIN old : new[i].id = old[i].id

IdsInInsertionOrder ==
    /\ StrictlyIncreasingIds(db.notes)
    /\ StrictlyIncreasingIds(db.action_items)

NoRowDeleted ==
    /\ KeepsRows(db.notes, db'.notes)
    /\ KeepsRows(db.action_items, db'.action_items)

OnlyDoneChanges ==
    /\ \A i \in DOMAIN db.notes : db'.notes[i] = db.notes[i]
    /\ \A i \in DOMAIN db.action_items :
           db'.action_items[i] = [db.action_items[i] EXCEPT
                                      !.done = db'.action_items[i].done]

CreatedNotDone ==
    \A i \in DOMAIN db'.action_items :
        i > Len(db.action_items) => db'.action_items[i].done = 0

\* C27: across any sequence of calls of the db operations, the ids of notes
\* and the ids of action items are unique and strictly increasing in the
\* order of insertion; every step keeps every stored row; a stored note
\* never changes and a stored action item changes in its done flag only;
\* an action item is created with done = 0.
C27_RowsAreKeptAndIdsIncrease ==
    /\ []IdsInInsertionOrder
    /\ [][NoRowDeleted /\ OnlyDoneChanges /\ CreatedNotDone]_vars

\* an item was just marked done in a store of two notes and two items, the
\* other item still not done
C27_Witness ==
    /\ served.op = "mark_action_item_done"
    /\ served.raised = NoError
    /\ served.after # served.before
    /\ Len(db.notes) = 2
    /\ Len(db.action_items) = 2
    /\ \E i, j \in DOMAIN db.action_items :
           db.action_items[i].done = 1 /\ db.action_items[j].done = 0

====
